---- MODULE Spec2Model ----
(***************************************************************************)
(* A model of amazon_scraper.py: the Challenge Classifier                  *)
(* (AmazonScraper._is_valid_page), the identity rotators (ProxyManager,    *)
(* CookieManager) and the fetch orchestrator (AmazonScraper._get_page).    *)
(*                                                                         *)
(* Python strings are sequences of one-character strings.  Python values   *)
(* that may be None are tagged records.                                    *)
(***************************************************************************)
EXTENDS Integers, Sequences, FiniteSets, TLC

VARIABLES
    \* ---- _is_valid_page, called on its own
    c_html,          \* the argument html
    c_result,        \* "unset", or the classification of c_html
    \* ---- ProxyManager
    proxies,         \* self.proxies
    current_index,   \* self.current_index
    pm_ret,          \* what the most recent ProxyManager call returned or raised
    marked,          \* history: the proxies mark_bad_proxy was called with
    loaded,          \* history: self.proxies as the constructor left it
    served,          \* history: what the most recent get_proxy calls made on the
                     \* ProxyManager itself returned or raised, since the last
                     \* removal; as many of them as the pool has entries
    \* ---- CookieManager
    cookie_jar,      \* self.cookie_jar._cookies, in iteration order
    last_cookies,    \* history: response.cookies of the most recent update_from_response
    prev_names,      \* history: the names get_cookie_dict had before that update
    before_repeat,   \* history: the jar before that update, if the update merged
                     \* the same cookies as the update before it
    \* ---- AmazonScraper and one _get_page call
    use_browser,     \* self.use_browser
    use_proxies,     \* self.proxy_manager is not None
    max_retries,     \* self.max_retries
    retry_delay,     \* self.retry_delay
    pc,              \* position in _get_page
    methods,         \* the local list methods
    attempt,         \* the loop variable attempt
    pos,             \* how many elements of methods the inner for loop has consumed
    calls,           \* history: the strategy calls of the pass under way, in order
    ncalls,          \* history: the number of strategy calls of this _get_page call
    sleeps,          \* history: the arguments of the completed time.sleep calls
    ret,             \* what _get_page returned or raised
    \* ---- the strategies' long-lived state
    sessions,        \* self.cf_bypass.scraper and self.cf_bypass.tls_client
    driver,          \* self.browser.driver
    browser_proxy,   \* self.browser.proxy
    chrome_ok,       \* environment: uc.Chrome can be started
    observed,        \* history: the cookies of the response the most recent strategy call obtained
    identity,        \* history: the proxy and user agent the most recent strategy call used
    cancelled,       \* history: a KeyboardInterrupt was delivered during the most recent
                     \* strategy call or sleep
    \* ---- CookieManager and its cookie file
    cookie_file,     \* self.cookie_file
    disk,            \* the cookie file on disk
    cm_ret,          \* what the most recent CookieManager call returned or raised
    \* ---- the owner of a scraper: main, or a function of amazon_scraper_example.py
    owner,           \* which owner runs
    owner_pc,        \* position in the owner
    cf_ok,           \* environment: the sessions of CloudflareBypass can be created
    scraper_built,   \* the name scraper is bound
    pending,         \* the exception under way in the owner, or None
    closes,          \* history: the number of scraper.close() calls
    exit_status,     \* what the owner returned or raised
    \* ---- threads sharing one ProxyManager and one CookieManager
    t_pc,            \* position of each thread in its operation
    t_op,            \* the operation each thread runs, with its argument
    t_local,         \* the local variables of each thread
    t_ret,           \* what each thread's operation returned or raised
    \* ---- one UndetectedChromeDriver and its get calls
    b_pc,            \* position in UndetectedChromeDriver.get
    wait_time,       \* the argument wait_time
    page_source,     \* self.driver.page_source: what the browser shows
    b_sleeps,        \* history: the arguments of the completed time.sleep calls of this get
    b_look,          \* history: the page the challenge checks read, and their verdict
    b_gets,          \* history: the number of get calls
    b_log,           \* history: the get and close calls, and the driver before and after each
    b_ret,           \* what get returned or raised
    \* ---- search_products / get_product_details
    api,             \* which of the two is called
    api_pc,          \* position in it
    parsed,          \* history: the arguments of the _parse_* calls
    api_ret,         \* what it returned or raised
    \* ---- a function wrapped by retry(max_attempts, delay, backoff)
    max_attempts,    \* the decorator's arguments
    delay,
    backoff,
    mtries,          \* the wrapper's locals
    mdelay,
    r_pc,            \* position in wrapper
    r_calls,         \* history: how each invocation of func ended
    r_sleeps,        \* history: the arguments of the completed time.sleep calls
    r_ret,           \* what wrapper returned or raised
    \* ---- one CloudflareBypass and its get_with_* calls
    headers,         \* the User-Agent header of self.scraper and of self.tls_client
    user_agent,      \* history: the local user_agent of the most recent init_scrapers
    cf_ret           \* what the most recent call returned or raised, and the
                     \* sessions before it

classify_vars == <<c_html, c_result>>
proxy_vars    == <<proxies, current_index, pm_ret, marked, loaded, served>>
cookie_vars   == <<cookie_jar, last_cookies, prev_names, before_repeat>>
config_vars   == <<use_browser, use_proxies, max_retries, retry_delay>>
fetch_vars    == <<pc, methods, attempt, pos, calls, ncalls, sleeps, ret>>
strategy_vars == <<sessions, driver, browser_proxy, chrome_ok, observed, identity, cancelled>>
store_vars    == <<cookie_file, disk, cm_ret>>
owner_vars    == <<owner, owner_pc, cf_ok, scraper_built, pending, closes, exit_status>>
thread_vars   == <<t_pc, t_op, t_local, t_ret>>
browser_vars  == <<b_pc, wait_time, page_source, b_sleeps, b_look, b_gets, b_log, b_ret>>
api_vars      == <<api, api_pc, parsed, api_ret>>
retry_vars    == <<max_attempts, delay, backoff, mtries, mdelay, r_pc, r_calls, r_sleeps, r_ret>>
cf_vars       == <<headers, user_agent, cf_ret>>
other_vars    == <<browser_vars, api_vars, retry_vars, cf_vars>>
vars == <<classify_vars, proxy_vars, cookie_vars, config_vars, fetch_vars, strategy_vars,
          store_vars, owner_vars, thread_vars, other_vars>>

-----------------------------------------------------------------------------
(* Python values *)

None == [tag |-> "None"]
Str(s) == [tag |-> "str", text |-> s]
Return(v) == [tag |-> "return", val |-> v]
Raise(e) == [tag |-> "raise", exc |-> e]
NotCalled == [tag |-> "not called"]

\* bool(v) for v a str or None
Truthy(v) == v.tag = "str" /\ v.text # <<>>

\* sub in s, for two strings
Contains(s, sub) ==
    \E i \in 0..(Len(s) - Len(sub)) : SubSeq(s, i + 1, i + Len(sub)) = sub

UpperAlpha == <<"A","B","C","D","E","F","G","H","I","J","K","L","M",
                "N","O","P","Q","R","S","T","U","V","W","X","Y","Z">>
LowerAlpha == <<"a","b","c","d","e","f","g","h","i","j","k","l","m",
                "n","o","p","q","r","s","t","u","v","w","x","y","z">>

LowerChar(ch) ==
    IF \E i \in DOMAIN UpperAlpha : UpperAlpha[i] = ch
    THEN LowerAlpha[CHOOSE i \in DOMAIN UpperAlpha : UpperAlpha[i] = ch]
    ELSE ch

UpperChar(ch) ==
    IF \E i \in DOMAIN LowerAlpha : LowerAlpha[i] = ch
    THEN UpperAlpha[CHOOSE i \in DOMAIN LowerAlpha : LowerAlpha[i] = ch]
    ELSE ch

\* str.lower() and str.upper()
Lower(s) == [i \in DOMAIN s |-> LowerChar(s[i])]
Upper(s) == [i \in DOMAIN s |-> UpperChar(s[i])]

-----------------------------------------------------------------------------
(* The Challenge Classifier: AmazonScraper._is_valid_page *)

challenge_indicators == <<
    <<"c","a","p","t","c","h","a">>,
    <<"r","o","b","o","t"," ","c","h","e","c","k">>,
    <<"v","e","r","i","f","y"," ","y","o","u","'","r","e"," ","a"," ",
      "h","u","m","a","n">>,
    <<"c","h","e","c","k","i","n","g"," ","y","o","u","r"," ",
      "b","r","o","w","s","e","r">>,
    <<"s","o","r","r","y",","," ","w","e"," ","j","u","s","t"," ",
      "n","e","e","d"," ","t","o"," ","m","a","k","e"," ","s","u","r","e"," ",
      "y","o","u","'","r","e"," ","n","o","t"," ","a"," ","r","o","b","o","t">>,
    <<"t","o"," ","d","i","s","c","u","s","s"," ","a","u","t","o","m","a","t","e","d"," ",
      "a","c","c","e","s","s"," ","t","o"," ","a","m","a","z","o","n"," ",
      "d","a","t","a"," ","p","l","e","a","s","e"," ","c","o","n","t","a","c","t">>
>>

\* A plausible slip: the indicators are searched in html, not in html.lower().
IsValidPageCaseSensitive(html) ==
    IF ~Truthy(html) THEN FALSE
    ELSE \A k \in DOMAIN challenge_indicators :
             ~Contains(html.text, challenge_indicators[k])

IsValidPage(html) ==
    IF ~Truthy(html) THEN FALSE
    ELSE LET html_lower == Lower(html.text)
         IN  \A k \in DOMAIN challenge_indicators :
                 ~Contains(html_lower, challenge_indicators[k])

\* What the spec calls classify(content)
Classify(html) == IF IsValidPage(html) THEN "VALID" ELSE "CHALLENGE"

(* The contents _is_valid_page is tried on: None, the empty string, and a   *)
(* padding, a middle and a padding, where the middle is an indicator in     *)
(* some casing, an indicator cut short, or text with no indicator.          *)
MaxPad == 1
PadChars == {"<", "A", "a"}

RECURSIVE StringsUpTo(_, _)
StringsUpTo(chars, n) ==
    IF n = 0 THEN {<<>>}
    ELSE LET shorter == StringsUpTo(chars, n - 1)
         IN  shorter \cup {Append(s, ch) : s \in shorter, ch \in chars}

Capitalize(s) == [i \in DOMAIN s |-> IF i = 1 THEN UpperChar(s[i]) ELSE s[i]]
CutShort(s) == SubSeq(s, 1, Len(s) - 1)

OkPage == <<"<","h","t","m","l",">","O","K","<","/","h","t","m","l",">">>
CaptchaPage == <<"E","n","t","e","r"," ","C","A","P","T","C","H","A">>
RobotPage == <<"<","p",">","R","o","b","o","t","<","/","p",">">>

Middles ==
    {<<>>, OkPage, RobotPage}
    \cup UNION {{challenge_indicators[k], Upper(challenge_indicators[k]),
                 Capitalize(challenge_indicators[k]), CutShort(challenge_indicators[k])}
                : k \in DOMAIN challenge_indicators}

ClassifyInputs ==
    {None} \cup {Str(pre \o mid \o post) :
                    pre \in StringsUpTo(PadChars, MaxPad),
                    mid \in Middles,
                    post \in StringsUpTo(PadChars, MaxPad)}

-----------------------------------------------------------------------------
(* ProxyManager.  A proxy URL is a string; the ones tried are one letter    *)
(* long, or blank.                                                          *)

Whitespace == {" ", "\n", "\t"}

RECURSIVE LStrip(_)
LStrip(s) == IF s # <<>> /\ Head(s) \in Whitespace THEN LStrip(Tail(s)) ELSE s

RECURSIVE RStrip(_)
RStrip(s) ==
    IF s # <<>> /\ s[Len(s)] \in Whitespace THEN RStrip(SubSeq(s, 1, Len(s) - 1)) ELSE s

\* str.strip()
Strip(s) == LStrip(RStrip(s))

\* x in lst, for a list
InList(x, lst) == \E i \in DOMAIN lst : lst[i] = x

\* lst.remove(x), for x in lst: the first occurrence goes
ListRemove(lst, x) ==
    LET i == CHOOSE j \in DOMAIN lst :
                 lst[j] = x /\ \A k \in 1..(j - 1) : lst[k] # x
    IN  SubSeq(lst, 1, i - 1) \o SubSeq(lst, i + 1, Len(lst))

\* the loop over the lines of the proxy file, lines 71-74
RECURSIVE LoadLines(_, _)
LoadLines(acc, lines) ==
    IF lines = <<>> THEN acc
    ELSE LET proxy == Strip(Head(lines))
         IN  LoadLines(IF proxy # <<>> /\ ~InList(proxy, acc)
                       THEN Append(acc, proxy) ELSE acc,
                       Tail(lines))

NoFile == [given |-> FALSE]
File(exists, lines) == [given |-> TRUE, exists |-> exists, lines |-> lines]

\* ProxyManager.__init__(proxies, proxy_file): the value of self.proxies
ProxyManagerInit(proxy_list, proxy_file) ==
    LET fromList == IF proxy_list.tag = "list" /\ proxy_list.items # <<>>
                    THEN proxy_list.items ELSE <<>>
    IN  IF proxy_file.given /\ proxy_file.exists
        THEN LoadLines(fromList, proxy_file.lines)
        ELSE fromList

List(items) == [tag |-> "list", items |-> items]
ProxyDict(proxy) == [tag |-> "dict", http |-> proxy, https |-> proxy]

\* ProxyManager.get_proxy on (self.proxies, self.current_index):
\* what it returns or raises, and the new self.current_index
GetProxy(pool, ci) ==
    IF pool = <<>> THEN [res |-> Return(None), index |-> ci]
    ELSE IF ci >= Len(pool) THEN [res |-> Raise("IndexError"), index |-> ci]
    ELSE [res |-> Return(ProxyDict(pool[ci + 1])), index |-> (ci + 1) % Len(pool)]

\* ProxyManager.mark_bad_proxy on self.proxies: the new self.proxies
MarkBadProxy(pool, proxy) ==
    IF InList(proxy, pool) THEN ListRemove(pool, proxy) ELSE pool

(* The constructor's arguments that are tried *)
MaxProxyList == 2
MaxFileLines == 2
ProxyA == <<"a">>
ProxyB == <<"b">>
ListEntries == {ProxyA, ProxyB, <<>>}
FileLineChoices == {<<"a","\n">>, <<" ","a"," ","\n">>, <<"b","\n">>, <<"b">>,
                    <<"\n">>, <<" ","\t","\n">>}

RECURSIVE ListsUpTo(_, _)
ListsUpTo(items, n) ==
    IF n = 0 THEN {<<>>}
    ELSE LET shorter == ListsUpTo(items, n - 1)
         IN  shorter \cup {Append(l, x) : l \in shorter, x \in items}

ProxyListArgs == {None} \cup {List(l) : l \in ListsUpTo(ListEntries, MaxProxyList)}
ProxyFileArgs ==
    {NoFile} \cup {File(FALSE, <<>>)}
    \cup {File(TRUE, ls) : ls \in ListsUpTo(FileLineChoices, MaxFileLines)}

Elements(lst) == {lst[i] : i \in DOMAIN lst}

ProxyInit ==
    \E proxy_list \in ProxyListArgs, proxy_file \in ProxyFileArgs :
        /\ proxies = ProxyManagerInit(proxy_list, proxy_file)
        /\ current_index = 0
        /\ pm_ret = [op |-> "__init__", res |-> Return(None),
                     proxy_list |-> proxy_list, proxy_file |-> proxy_file]
        /\ marked = {}
        /\ loaded = ProxyManagerInit(proxy_list, proxy_file)
        /\ served = <<>>

\* the last n elements of lst, or all of them
LastN(lst, n) == IF Len(lst) <= n THEN lst ELSE SubSeq(lst, Len(lst) - n + 1, Len(lst))

DoGetProxy ==
    LET r == GetProxy(proxies, current_index)
    IN  /\ current_index' = r.index
        /\ pm_ret' = [op |-> "get_proxy", res |-> r.res]
        /\ served' = LastN(Append(served, r.res), Len(proxies))
        /\ UNCHANGED <<proxies, marked, loaded>>

DoMarkBadProxy ==
    \E proxy \in ListEntries :
        /\ proxies' = MarkBadProxy(proxies, proxy)
        /\ marked' = marked \cup {proxy}
        /\ pm_ret' = [op |-> "mark_bad_proxy", res |-> Return(None)]
        /\ served' = IF InList(proxy, proxies) THEN <<>> ELSE served
        /\ UNCHANGED <<current_index, loaded>>

-----------------------------------------------------------------------------
(* CookieManager.  A Python dict is the sequence of its items in insertion  *)
(* order.  http.cookiejar keeps the jar as a dict of domains, each a dict   *)
(* of paths, each a dict of names, and iterates it in that nesting.         *)

DictHas(d, k) == \E i \in DOMAIN d : d[i].key = k
DictGet(d, k) == d[CHOOSE i \in DOMAIN d : d[i].key = k].val
\* d[k] = v: a key that is present keeps its place
DictPut(d, k, v) ==
    IF DictHas(d, k)
    THEN [i \in DOMAIN d |-> IF d[i].key = k THEN [key |-> k, val |-> v] ELSE d[i]]
    ELSE Append(d, [key |-> k, val |-> v])
\* A plausible slip: every assignment adds an item, also for a key that is present.
DictPutAppending(d, k, v) == Append(d, [key |-> k, val |-> v])
DictOrEmpty(d, k) == IF DictHas(d, k) THEN DictGet(d, k) ELSE <<>>
DictKeys(d) == {d[i].key : i \in DOMAIN d}

Cookie(domain, path, name, value) ==
    [domain |-> domain, path |-> path, name |-> name, value |-> value]

EmptyJar == <<>>

\* CookieJar.set_cookie, which update_from_response calls for each cookie
SetCookieAppending(jar, cookie) ==
    LET c2 == DictOrEmpty(jar, cookie.domain)
        c3 == DictOrEmpty(c2, cookie.path)
    IN  DictPut(jar, cookie.domain,
                DictPut(c2, cookie.path, DictPutAppending(c3, cookie.name, cookie)))

SetCookie(jar, cookie) ==
    LET c2 == DictOrEmpty(jar, cookie.domain)
        c3 == DictOrEmpty(c2, cookie.path)
    IN  DictPut(jar, cookie.domain,
                DictPut(c2, cookie.path, DictPut(c3, cookie.name, cookie)))

RECURSIVE ConcatVals(_)
\* the values of a dict of sequences, one after the other
ConcatVals(d) == IF d = <<>> THEN <<>> ELSE Head(d).val \o ConcatVals(Tail(d))

DictVals(d) == [i \in DOMAIN d |-> d[i].val]

\* iter(cookie_jar): the cookies in the order the jar yields them
JarCookies(jar) ==
    ConcatVals([i \in DOMAIN jar |->
        [key |-> jar[i].key,
         val |-> ConcatVals([j \in DOMAIN jar[i].val |->
                    [key |-> jar[i].val[j].key, val |-> DictVals(jar[i].val[j].val)]])]])

\* CookieManager.update_from_response, for response.cookies yielding cookies
RECURSIVE UpdateFromResponse(_, _)
UpdateFromResponse(jar, cookies) ==
    IF cookies = <<>> THEN jar
    ELSE UpdateFromResponse(SetCookie(jar, Head(cookies)), Tail(cookies))

\* the dict comprehension of get_cookie_dict over the cookies the jar yields
RECURSIVE NameValueDict(_, _)
NameValueDict(acc, cookies) ==
    IF cookies = <<>> THEN acc
    ELSE NameValueDict(DictPut(acc, Head(cookies).name, Head(cookies).value),
                       Tail(cookies))

\* CookieManager.get_cookie_dict
GetCookieDict(jar) == NameValueDict(<<>>, JarCookies(jar))

(* The cookies that are tried *)
MaxResponseCookies == 2
CookieValues == {"v0", "v1"}
\* (domain, path, name): two domains, two paths, two names
CookieKeys == {<<"d1", "/", "n">>, <<"d2", "/", "n">>, <<"d1", "/a", "n">>,
               <<"d1", "/", "m">>}
CookieUniverse ==
    {Cookie(k[1], k[2], k[3], v) : k \in CookieKeys, v \in CookieValues}

\* response.cookies is a jar too: what it yields, for every way of filling it
ResponseCookies ==
    {JarCookies(UpdateFromResponse(EmptyJar, l)) :
        l \in ListsUpTo(CookieUniverse, MaxResponseCookies)}

NoUpdate == <<[tag |-> "no update yet"]>>
NoRepeat == <<[tag |-> "no repeat"]>>

CookieInit ==
    /\ cookie_jar = EmptyJar
    /\ last_cookies = NoUpdate
    /\ prev_names = {}
    /\ before_repeat = NoRepeat

DoUpdateFromResponse ==
    \E cookies \in ResponseCookies :
        /\ cookie_jar' = UpdateFromResponse(cookie_jar, cookies)
        /\ last_cookies' = cookies
        /\ prev_names' = DictKeys(GetCookieDict(cookie_jar))
        /\ before_repeat' = IF cookies = last_cookies THEN cookie_jar ELSE NoRepeat

-----------------------------------------------------------------------------
(* The cookie file.  A file in the Netscape format is a header line and one *)
(* line per cookie; a line that does not parse is Garbage.                  *)

Garbage == [garbage |-> TRUE]
NoCookieFile == [exists |-> FALSE, header_ok |-> FALSE, lines |-> <<>>]
CookieFile(header_ok, lines) == [exists |-> TRUE, header_ok |-> header_ok, lines |-> lines]

\* MozillaCookieJar.load after the header: each line is parsed and its cookie
\* set; the first line that does not parse raises LoadError, and the cookies
\* set before it stay
RECURSIVE ReallyLoad(_, _)
ReallyLoad(jar, lines) ==
    IF lines = <<>> THEN [jar |-> jar, res |-> Return(None)]
    ELSE IF Head(lines) = Garbage THEN [jar |-> jar, res |-> Raise("LoadError")]
    ELSE ReallyLoad(SetCookie(jar, Head(lines)), Tail(lines))

\* self.cookie_jar.load(cookie_file, ...)
Load(jar, file) ==
    IF ~file.header_ok THEN [jar |-> jar, res |-> Raise("LoadError")]
    ELSE ReallyLoad(jar, file.lines)

\* CookieManager.__init__(cookie_file): the jar, and what __init__ returns or
\* raises; given: cookie_file is not None
CookieManagerInit(given, file) ==
    IF given /\ file.exists
    THEN [jar |-> Load(EmptyJar, file).jar, res |-> Return(None)]
    ELSE [jar |-> EmptyJar, res |-> Return(None)]

\* CookieManager.save_cookies: the file afterwards.  A save that fails
\* leaves the file as it was, or cut to nothing.
SaveCookies(given, jar, file, fails, truncated) ==
    IF ~given THEN file
    ELSE IF ~fails THEN CookieFile(TRUE, JarCookies(jar))
    ELSE IF truncated THEN CookieFile(FALSE, <<>>)
    ELSE file

IsCorrupt(file) ==
    file.exists /\ (~file.header_ok \/ \E i \in DOMAIN file.lines : file.lines[i] = Garbage)

(* The cookie files that are tried *)
MaxCookieLines == 2
FileCookies == {Cookie("d1", "/", "n", "v0"), Cookie("d1", "/", "m", "v0")}
CookieFiles ==
    {NoCookieFile}
    \cup {CookieFile(h, ls) : h \in BOOLEAN,
                              ls \in ListsUpTo(FileCookies \cup {Garbage}, MaxCookieLines)}

CookieFileInit ==
    \E given \in BOOLEAN, file \in CookieFiles :
        /\ cookie_file = IF given THEN Str(<<"f">>) ELSE None
        /\ disk = file
        /\ cookie_jar = CookieManagerInit(given, file).jar
        /\ cm_ret = [op |-> "__init__", res |-> CookieManagerInit(given, file).res,
                     jar_before |-> EmptyJar, failed |-> FALSE]
        /\ last_cookies = NoUpdate
        /\ prev_names = {}
        /\ before_repeat = NoRepeat

DoSaveCookies ==
    \E fails \in BOOLEAN, truncated \in BOOLEAN :
        /\ disk' = SaveCookies(cookie_file # None, cookie_jar, disk, fails, truncated)
        /\ cm_ret' = [op |-> "save_cookies", res |-> Return(None),
                      jar_before |-> cookie_jar, failed |-> (cookie_file # None /\ fails)]
        /\ UNCHANGED <<cookie_file, cookie_vars>>

\* update_from_response with a response that sets one cookie
DoUpdateOneCookie ==
    \E cookie \in FileCookies \cup {Cookie("d1", "/", "n", "v1")} :
        /\ cookie_jar' = UpdateFromResponse(cookie_jar, <<cookie>>)
        /\ last_cookies' = <<cookie>>
        /\ prev_names' = DictKeys(GetCookieDict(cookie_jar))
        /\ before_repeat' = IF <<cookie>> = last_cookies THEN cookie_jar ELSE NoRepeat
        /\ cm_ret' = [op |-> "update_from_response", res |-> Return(None),
                      jar_before |-> cookie_jar, failed |-> FALSE]
        /\ UNCHANGED <<cookie_file, disk>>

-----------------------------------------------------------------------------
(* The acquisition strategies: AmazonScraper._get_with_*.  What the network *)
(* or the browser does during one call is an event.                         *)

StatusCodes == {200, 503}
Pages == {<<>>, OkPage, RobotPage, CaptchaPage}
SessionCookie == Cookie("d1", "/", "n", "v0")
FetchResponseCookies == {<<>>, <<SessionCookie>>}

ErrorEvent == [type |-> "error"]
InterruptEvent == [type |-> "interrupt"]
\* the browser shows a page; signal: a KeyboardInterrupt arrives while
\* _is_cloudflare_challenge or _is_captcha_challenge reads page_source
PageEvent(text, cookies, signal) ==
    [type |-> "page", text |-> text, cookies |-> cookies, signal |-> signal]
ResponseEvent(status, text, cookies) ==
    [type |-> "response", status |-> status, text |-> text, cookies |-> cookies]

\* a response that is not a 200 has its text ignored: one text stands for all
BrowserEvents ==
    {ErrorEvent, InterruptEvent}
    \cup {PageEvent(t, <<>>, FALSE) : t \in Pages}
    \cup {PageEvent(CaptchaPage, cs, sg) : cs \in FetchResponseCookies, sg \in BOOLEAN}
    \cup {PageEvent(OkPage, cs, sg) : cs \in FetchResponseCookies, sg \in BOOLEAN}
HttpEvents ==
    {ErrorEvent, InterruptEvent}
    \cup {ResponseEvent(200, t, cs) : t \in Pages, cs \in FetchResponseCookies}
    \cup {ResponseEvent(st, CaptchaPage, cs) :
            st \in StatusCodes \ {200}, cs \in FetchResponseCookies}

AllMethods == <<"_get_with_browser", "_get_with_cloudscraper",
                "_get_with_tls_client", "_get_with_requests">>

EventsOf(method) == IF method = "_get_with_browser" THEN BrowserEvents ELSE HttpEvents

\* CloudflareBypass.init_scrapers: a user agent is drawn and both sessions
\* are created anew
InitScrapers == [scraper |-> "clean", tls_client |-> "clean"]

\* A plausible slip: the failure is raised again without init_scrapers.
CfGetNoReinit(client, ev, sess) == [sess EXCEPT ![client] = "used"]

\* CloudflareBypass.get_with_cloudscraper / get_with_tls_client on the
\* sessions: a request that raises an Exception has init_scrapers run before
\* the exception is raised again
CfGet(client, ev, sess) ==
    IF ev.type = "error" THEN InitScrapers ELSE [sess EXCEPT ![client] = "used"]

ClientOf(method) ==
    IF method = "_get_with_cloudscraper" THEN "scraper" ELSE "tls_client"

\* the proxy and the user agent of one strategy call: whether get_proxy was
\* called for it, the proxy it went through, and whether its user agent was
\* drawn during the call
Identity(rotated, proxy, ua_fresh) ==
    [rotated |-> rotated, proxy |-> proxy, ua_fresh |-> ua_fresh]
NoIdentity == [rotated |-> FALSE, proxy |-> None, ua_fresh |-> FALSE]

\* _get_with_browser, with UndetectedChromeDriver.get and initialize: what it
\* returns or raises; it touches neither the cookie jar nor the proxy
\* rotation.  The driver is started by the first call, with the proxy the
\* constructor gave it and a user agent drawn then.
GetWithBrowser(has_browser, ev, jar, pool, ci) ==
    LET start == driver = "None"
        base == [jar |-> jar, index |-> ci, sessions |-> sessions,
                 observed |-> <<>>, signal |-> FALSE, driver |-> driver,
                 identity |-> NoIdentity]
    IN  IF ~has_browser THEN base @@ [res |-> Return(None)]
        ELSE IF start /\ ~chrome_ok
        THEN base @@ [res |-> Raise("WebDriverException")]
        ELSE LET started == [base EXCEPT !.driver = "chrome",
                                         !.identity = Identity(FALSE, browser_proxy, start)]
             IN  IF ev.type = "error"
                 THEN started @@ [res |-> Raise("WebDriverException")]
                 ELSE IF ev.type = "interrupt"
                 THEN [started EXCEPT !.signal = TRUE] @@ [res |-> Raise("KeyboardInterrupt")]
                 ELSE [started EXCEPT !.observed = ev.cookies, !.signal = ev.signal]
                      @@ [res |-> Return(Str(ev.text))]

\* _get_with_cloudscraper, _get_with_tls_client, _get_with_requests: the
\* proxy is drawn while the arguments of the request are evaluated; a 200
\* response has its cookies merged and its text returned
GetWithHttp(has_proxies, ev, jar, pool, ci) ==
    LET px == IF has_proxies THEN GetProxy(pool, ci)
              ELSE [res |-> Return(None), index |-> ci]
    IN  IF px.res.tag = "raise" THEN [res |-> px.res, jar |-> jar, index |-> px.index]
        ELSE IF ev.type = "error"
        THEN [res |-> Raise("RequestException"), jar |-> jar, index |-> px.index]
        ELSE IF ev.type = "interrupt"
        THEN [res |-> Raise("KeyboardInterrupt"), jar |-> jar, index |-> px.index]
        ELSE IF ev.status = 200
        THEN [res |-> Return(Str(ev.text)),
              jar |-> UpdateFromResponse(jar, ev.cookies),
              index |-> px.index]
        ELSE [res |-> Return(None), jar |-> jar, index |-> px.index]

\* what one call of an HTTP strategy does besides: the sessions of
\* self.cf_bypass, the cookies the response carried, the signal delivered,
\* the proxy and user agent of the request
HttpSideEffects(method, has_proxies, ev, pool, ci, sess) ==
    LET px == IF has_proxies THEN GetProxy(pool, ci)
              ELSE [res |-> Return(None), index |-> ci]
        sent == px.res.tag # "raise"
    IN  [sessions |-> IF sent /\ method # "_get_with_requests"
                      THEN CfGet(ClientOf(method), ev, sess) ELSE sess,
         observed |-> IF sent /\ ev.type = "response" THEN ev.cookies ELSE <<>>,
         signal |-> sent /\ ev.type = "interrupt",
         identity |-> IF sent
                      THEN Identity(has_proxies, px.res.val, method = "_get_with_requests")
                      ELSE Identity(has_proxies, None, FALSE)]

-----------------------------------------------------------------------------
(* The fetch orchestrator: AmazonScraper._get_page *)

\* A plausible slip: except requests.RequestException, which lets the
\* errors of the browser driver through.
IsExceptionRequestsOnly(exc) == exc = "RequestException"

\* except Exception catches everything but the BaseException-only classes
IsException(exc) == exc # "KeyboardInterrupt"

\* A plausible slip: any non-empty content is returned, classified or not.
PageAcceptedUnclassified(html) == Truthy(html)

\* line 571: html and self._is_valid_page(html)
PageAccepted(html) == Truthy(html) /\ IsValidPage(html)

\* A plausible slip: a bare except, which catches KeyboardInterrupt too.
DispositionBareExcept(res) ==
    IF res.tag = "raise" THEN "continue"
    ELSE IF PageAccepted(res.val) THEN "return"
    ELSE "continue"

\* A plausible slip: no try/except around the strategy call.
DispositionUncaught(res) ==
    IF res.tag = "raise" THEN "propagate"
    ELSE IF PageAccepted(res.val) THEN "return"
    ELSE "continue"

\* A plausible slip: the content is kept and the loop goes on.
DispositionKeepsLooking(res) ==
    IF res.tag = "raise"
    THEN IF IsException(res.exc) THEN "continue" ELSE "propagate"
    ELSE "continue"

\* lines 569-575: what the loop body does with the outcome of method(url)
Disposition(res) ==
    IF res.tag = "raise"
    THEN IF IsException(res.exc) THEN "continue" ELSE "propagate"
    ELSE IF PageAccepted(res.val) THEN "return"
    ELSE "continue"

\* A plausible slip: the delay shrinks as the attempts go by.
BackoffDelayShrinking(a) == retry_delay * (max_retries - a)

\* line 579: the argument of time.sleep in attempt a (counted from 0)
BackoffDelay(a) == retry_delay * (a + 1)

\* A plausible slip: the order is drawn with replacement.
ShuffledWithReplacement(lst) == [DOMAIN lst -> Elements(lst)]

\* line 566: the orders random.shuffle(methods) can leave
Shuffled(lst) ==
    {p \in [DOMAIN lst -> Elements(lst)] :
        \A i \in DOMAIN lst : Cardinality({j \in DOMAIN p : p[j] = lst[i]})
                              = Cardinality({j \in DOMAIN lst : lst[j] = lst[i]})}

\* A plausible slip: the browser method is not removed.
AvailableMethodsAll(browser_enabled) == AllMethods

\* lines 552-561: the list methods before the loop
AvailableMethods(browser_enabled) ==
    IF browser_enabled THEN AllMethods ELSE SubSeq(AllMethods, 2, Len(AllMethods))

\* history: how a strategy call ended, as the spec classifies it
Outcome(res) ==
    IF res.tag = "raise"
    THEN IF IsException(res.exc) THEN "technical" ELSE "interrupt"
    ELSE IF Classify(res.val) = "VALID" THEN "valid"
    ELSE "challenge"

CallRecord(method, res) ==
    LET outcome == Outcome(res)
    IN  [method |-> method, outcome |-> outcome,
         html |-> IF outcome = "valid" THEN res.val ELSE None]

(* The configurations that are tried *)
MaxRetries == 2
MaxRetryDelay == 1
RetryCounts == (0 - 1)..MaxRetries
RetryDelays == (0 - 1)..MaxRetryDelay

\* AmazonScraper.__init__, lines 455-483
ScraperInit ==
    \E ub \in BOOLEAN, up \in BOOLEAN, mr \in RetryCounts, rd \in RetryDelays :
        LET pool == IF up THEN ProxyManagerInit(List(<<ProxyA, ProxyB>>), NoFile)
                    ELSE <<>>
            first == GetProxy(pool, 0)
        IN  /\ use_browser = ub
            /\ use_proxies = up
            /\ max_retries = mr
            /\ retry_delay = rd
            /\ cookie_jar = EmptyJar
            /\ last_cookies = NoUpdate
            /\ prev_names = {}
            /\ before_repeat = NoRepeat
            /\ proxies = pool
            /\ current_index = IF ub /\ up THEN first.index ELSE 0
            /\ pm_ret = IF ub /\ up THEN [op |-> "get_proxy", res |-> first.res]
                        ELSE [op |-> "__init__", res |-> Return(None)]
            /\ marked = {}
            /\ loaded = pool
            /\ served = <<>>
            /\ pc = "idle"
            /\ methods = <<>>
            /\ attempt = 0
            /\ pos = 0
            /\ calls = <<>>
            /\ ncalls = 0
            /\ sleeps = <<>>
            /\ ret = NotCalled
            /\ sessions = InitScrapers
            /\ driver = "None"
            /\ browser_proxy = IF ub /\ up /\ first.res.val # None
                               THEN Str(first.res.val.https) ELSE None
            /\ chrome_ok \in (IF ub THEN BOOLEAN ELSE {TRUE})
            /\ observed = <<>>
            /\ identity = NoIdentity
            /\ cancelled = FALSE

\* _get_page is called: lines 552-561
EnterGetPage ==
    /\ pc = "idle"
    /\ methods' = AvailableMethods(use_browser)
    /\ attempt' = 0
    /\ pc' = "for_attempt"
    /\ UNCHANGED <<pos, calls, ncalls, sleeps, ret>>
    /\ UNCHANGED <<proxy_vars, cookie_vars, config_vars, strategy_vars>>

\* A plausible slip: a first attempt is made whatever max_retries is.
ShuffleMethodsAtLeastOnce ==
    /\ pc = "for_attempt"
    /\ attempt < max_retries \/ attempt = 0
    /\ methods' \in Shuffled(methods)
    /\ pos' = 0
    /\ calls' = <<>>
    /\ pc' = "for_method"
    /\ UNCHANGED <<attempt, ncalls, sleeps, ret>>
    /\ UNCHANGED <<proxy_vars, cookie_vars, config_vars, strategy_vars>>

\* lines 564-566: another attempt begins
ShuffleMethods ==
    /\ pc = "for_attempt"
    /\ attempt < max_retries
    /\ methods' \in Shuffled(methods)
    /\ pos' = 0
    /\ calls' = <<>>
    /\ pc' = "for_method"
    /\ UNCHANGED <<attempt, ncalls, sleeps, ret>>
    /\ UNCHANGED <<proxy_vars, cookie_vars, config_vars, strategy_vars>>

\* lines 568-575: one strategy is called and its outcome handled
CallMethod ==
    /\ pc = "for_method"
    /\ pos < Len(methods)
    /\ \E ev \in EventsOf(methods[pos + 1]) :
        LET method == methods[pos + 1]
            r == IF method = "_get_with_browser"
                 THEN GetWithBrowser(use_browser, ev, cookie_jar, proxies, current_index)
                 ELSE GetWithHttp(use_proxies, ev, cookie_jar, proxies, current_index)
            side == IF method = "_get_with_browser" THEN r
                    ELSE HttpSideEffects(method, use_proxies, ev, proxies,
                                         current_index, sessions)
            todo == Disposition(r.res)
        IN  /\ calls' = Append(calls, CallRecord(method, r.res))
            /\ ncalls' = ncalls + 1
            /\ cookie_jar' = r.jar
            /\ current_index' = r.index
            /\ pos' = IF todo = "continue" THEN pos + 1 ELSE pos
            /\ pc' = IF todo = "continue" THEN pc ELSE "done"
            /\ ret' = IF todo = "return" THEN Return(r.res.val)
                      ELSE IF todo = "propagate" THEN r.res
                      ELSE ret
            /\ sessions' = side.sessions
            /\ driver' = IF method = "_get_with_browser" THEN r.driver ELSE driver
            /\ observed' = side.observed
            /\ identity' = side.identity
            /\ cancelled' = side.signal
    /\ UNCHANGED <<last_cookies, prev_names, before_repeat>>
    /\ UNCHANGED <<proxies, pm_ret, marked, loaded, served>>
    /\ UNCHANGED <<methods, attempt, sleeps, config_vars, browser_proxy, chrome_ok>>

\* lines 577-579: every method of this attempt failed; time.sleep raises
\* ValueError for a negative argument and can be interrupted
BackoffSleep ==
    /\ pc = "for_method"
    /\ pos = Len(methods)
    /\ \E interrupted \in BOOLEAN :
        LET seconds == BackoffDelay(attempt)
        IN  IF seconds < 0
            THEN /\ ret' = Raise("ValueError")
                 /\ pc' = "done"
                 /\ cancelled' = FALSE
                 /\ UNCHANGED <<attempt, sleeps, calls, observed, identity>>
            ELSE IF interrupted
            THEN /\ ret' = Raise("KeyboardInterrupt")
                 /\ pc' = "done"
                 /\ cancelled' = TRUE
                 /\ UNCHANGED <<attempt, sleeps, calls, observed, identity>>
            ELSE /\ sleeps' = Append(sleeps, seconds)
                 /\ attempt' = attempt + 1
                 /\ pc' = "for_attempt"
                 /\ calls' = <<>>
                 /\ observed' = <<>>
                 /\ identity' = NoIdentity
                 /\ cancelled' = FALSE
                 /\ UNCHANGED ret
    /\ UNCHANGED <<methods, pos, ncalls>>
    /\ UNCHANGED <<proxy_vars, cookie_vars, config_vars>>
    /\ UNCHANGED <<sessions, driver, browser_proxy, chrome_ok>>

\* lines 581-582: the attempts are used up
ReturnNone ==
    /\ pc = "for_attempt"
    /\ attempt >= max_retries
    /\ ret' = Return(None)
    /\ pc' = "done"
    /\ UNCHANGED <<methods, attempt, pos, calls, ncalls, sleeps>>
    /\ UNCHANGED <<proxy_vars, cookie_vars, config_vars, strategy_vars>>

-----------------------------------------------------------------------------
(* The owner of a scraper: main of amazon_scraper.py, which constructs the  *)
(* scraper inside its try statement, or search_example / product_example of *)
(* amazon_scraper_example.py, which construct it before theirs.             *)

Owners == {"main", "search_example"}

\* A plausible slip: self.driver = None after quit() instead of in a finally.
DriverAfterCloseNoFinally(drv, outcome) ==
    IF drv = "None" THEN drv ELSE IF outcome = "ok" THEN "None" ELSE drv

\* UndetectedChromeDriver.close: self.driver afterwards, whatever quit() did
DriverAfterClose(drv, outcome) == "None"

\* where an exception raised inside the try statement takes the owner
AfterRaise(who) == IF who = "main" THEN "except" ELSE "finally"

(* The owners' configurations that are tried *)
MaxOwnerRetries == 1

OwnerInit ==
    /\ owner \in Owners
    /\ owner_pc = "construct"
    /\ cf_ok \in BOOLEAN
    /\ scraper_built = FALSE
    /\ pending = None
    /\ closes = 0
    /\ exit_status = NotCalled
    /\ max_retries \in 0..MaxOwnerRetries
    \* the length of a sleep does not matter to the owner, whether it raises does
    /\ retry_delay \in {0 - 1, 0}

\* scraper = AmazonScraper(...): CloudflareBypass.__init__ raises what
\* init_scrapers raises; UndetectedChromeDriver.__init__ starts nothing
Construct ==
    /\ owner_pc = "construct"
    /\ IF cf_ok
       THEN /\ scraper_built' = TRUE
            /\ owner_pc' = "action"
            /\ UNCHANGED <<pending, exit_status>>
       ELSE IF owner = "main"
       THEN /\ pending' = Raise("Exception")
            /\ owner_pc' = "except"
            /\ UNCHANGED <<scraper_built, exit_status>>
       ELSE /\ exit_status' = Raise("Exception")
            /\ owner_pc' = "exit"
            /\ UNCHANGED <<scraper_built, pending>>
    /\ UNCHANGED <<owner, cf_ok, closes>>
    /\ UNCHANGED <<proxy_vars, cookie_vars, config_vars, fetch_vars, strategy_vars>>

\* search_products / get_product_details: _get_page has returned or raised
FetchReturns ==
    /\ owner_pc = "action"
    /\ pc = "done"
    /\ IF ret.tag = "raise"
       THEN pending' = ret /\ owner_pc' = AfterRaise(owner)
       ELSE pending' = pending /\ owner_pc' = "output"
    /\ UNCHANGED <<owner, cf_ok, scraper_built, closes, exit_status>>
    /\ UNCHANGED <<proxy_vars, cookie_vars, config_vars, fetch_vars, strategy_vars>>

\* the result is printed or written to a file
Output ==
    /\ owner_pc = "output"
    /\ \E outcome \in {"ok", "error", "interrupt"} :
          IF outcome = "ok"
          THEN pending' = pending /\ owner_pc' = "finally"
          ELSE /\ pending' = Raise(IF outcome = "error" THEN "OSError"
                                                        ELSE "KeyboardInterrupt")
               /\ owner_pc' = AfterRaise(owner)
    /\ UNCHANGED <<owner, cf_ok, scraper_built, closes, exit_status>>
    /\ UNCHANGED <<proxy_vars, cookie_vars, config_vars, fetch_vars, strategy_vars>>

\* main's handlers: except KeyboardInterrupt returns 130, except Exception 1
Except ==
    /\ owner_pc = "except"
    /\ exit_status' = Return(IF pending = Raise("KeyboardInterrupt") THEN 130 ELSE 1)
    /\ pending' = None
    /\ owner_pc' = "finally"
    /\ UNCHANGED <<owner, cf_ok, scraper_built, closes>>
    /\ UNCHANGED <<proxy_vars, cookie_vars, config_vars, fetch_vars, strategy_vars>>

\* the finally clause: scraper.close(), which main calls if scraper is
\* bound; AmazonScraper.close closes the browser, whose quit() can fail or be
\* interrupted, and then saves the cookies
Finally ==
    /\ owner_pc = "finally"
    /\ \E outcome \in {"ok", "error", "interrupt"} :
          LET running == use_browser /\ driver # "None"
              interrupted == scraper_built /\ running /\ outcome = "interrupt"
          IN  /\ closes' = IF scraper_built THEN closes + 1 ELSE closes
              /\ driver' = IF scraper_built /\ use_browser
                            THEN DriverAfterClose(driver, outcome) ELSE driver
              /\ exit_status' = IF interrupted THEN Raise("KeyboardInterrupt")
                                 ELSE IF pending # None THEN pending
                                 ELSE IF exit_status # NotCalled THEN exit_status
                                 ELSE Return(0)
    /\ owner_pc' = "exit"
    /\ UNCHANGED <<owner, cf_ok, scraper_built, pending>>
    /\ UNCHANGED <<proxy_vars, cookie_vars, config_vars, fetch_vars>>
    /\ UNCHANGED <<sessions, browser_proxy, chrome_ok, observed, identity, cancelled>>

-----------------------------------------------------------------------------
(* search_products and get_product_details: one _get_page call, and the     *)
(* record extractor on what it returned.                                    *)

Apis == {"search_products", "get_product_details"}

\* return [] of search_products, return {} of get_product_details
EmptyResult(which) ==
    [tag |-> IF which = "search_products" THEN "list" ELSE "dict", empty |-> TRUE]
\* what _parse_search_results(html) / _parse_product_details(html, product_id) returns
Extracted(which, html) ==
    [tag |-> IF which = "search_products" THEN "list" ELSE "dict", empty |-> FALSE,
     from |-> html]

\* A plausible slip: whatever _get_page returned is parsed.
IsParsedAlways(html) == TRUE

\* lines 513 and 535: if not html
IsParsed(html) == Truthy(html)

(* The configurations that are tried *)
MaxApiRetries == 1

ApiInit ==
    /\ api \in Apis
    /\ api_pc = "fetch"
    /\ parsed = <<>>
    /\ api_ret = NotCalled
    /\ max_retries \in (0 - 1)..MaxApiRetries
    \* the length of a sleep does not matter here, whether it raises does
    /\ retry_delay \in {0 - 1, 0}

\* lines 512-518 and 534-540: _get_page has returned or raised
AfterGetPage ==
    /\ api_pc = "fetch"
    /\ pc = "done"
    /\ api_pc' = "done"
    /\ IF ret.tag = "raise"
       THEN api_ret' = ret /\ UNCHANGED parsed
       ELSE IF ~IsParsed(ret.val)
       THEN api_ret' = Return(EmptyResult(api)) /\ UNCHANGED parsed
       ELSE /\ parsed' = Append(parsed, ret.val)
            /\ api_ret' = Return(Extracted(api, ret.val))
    /\ UNCHANGED <<api, proxy_vars, cookie_vars, config_vars, fetch_vars, strategy_vars>>

-----------------------------------------------------------------------------
(* CloudflareBypass on its own: the sessions and the user agent they send.  *)

UserAgents == {"ua1", "ua2"}

\* A plausible slip: only the session that failed gets the new user agent.
HeadersAfterFailureOfOne(client, ua, hdrs) == [hdrs EXCEPT ![client] = ua]

\* init_scrapers, lines 229-244: both sessions get the user agent drawn at
\* line 229
HeadersAfterFailure(client, ua, hdrs) == [scraper |-> ua, tls_client |-> ua]

CfInit ==
    /\ sessions = InitScrapers
    /\ \E ua \in UserAgents :
          /\ headers = [scraper |-> ua, tls_client |-> ua]
          /\ user_agent = ua
    /\ cf_ret = [op |-> "__init__", res |-> Return(None), before |-> InitScrapers]

\* get_with_cloudscraper or get_with_tls_client is called
DoCfGet(client) ==
    \E ev \in HttpEvents, ua \in UserAgents :
        /\ sessions' = CfGet(client, ev, sessions)
        /\ headers' = IF ev.type = "error"
                       THEN HeadersAfterFailure(client, ua, headers) ELSE headers
        /\ user_agent' = IF ev.type = "error" THEN ua ELSE user_agent
        /\ cf_ret' = [op |-> client,
                      res |-> IF ev.type = "error" THEN Raise("RequestException")
                              ELSE IF ev.type = "interrupt" THEN Raise("KeyboardInterrupt")
                              ELSE Return(ev),
                      before |-> sessions]

-----------------------------------------------------------------------------
(* The retry decorator: wrapper around a function func that returns, raises *)
(* an Exception, or is interrupted, as it pleases.                          *)

FuncOutcomes == {"return", "Exception", "KeyboardInterrupt"}
\* what func returned or raised, as the wrapper's caller sees it
FuncResult(outcome) ==
    IF outcome = "return" THEN Return(Str(<<"v">>)) ELSE Raise(outcome)

\* A plausible slip: while mtries > 0, one invocation too many.
KeepsTryingOnceMore(tries) == tries > 0

\* line 867: while mtries > 1
KeepsTrying(tries) == tries > 1

(* The decorator's arguments that are tried *)
MaxAttempts == 3
MaxDelay == 1
MaxBackoff == 2

RetryInit ==
    /\ max_attempts \in (0 - 1)..MaxAttempts
    /\ delay \in (0 - 1)..MaxDelay
    /\ backoff \in 0..MaxBackoff
    /\ mtries = 0
    /\ mdelay = 0
    /\ r_pc = "idle"
    /\ r_calls = <<>>
    /\ r_sleeps = <<>>
    /\ r_ret = NotCalled

\* line 866: mtries, mdelay = max_attempts, delay
EnterWrapper ==
    /\ r_pc = "idle"
    /\ mtries' = max_attempts
    /\ mdelay' = delay
    /\ r_pc' = "while"
    /\ UNCHANGED <<max_attempts, delay, backoff, r_calls, r_sleeps, r_ret>>

\* lines 867-870: func is invoked inside the loop; except exceptions, which
\* is (Exception,), lets KeyboardInterrupt through
TryFunc ==
    /\ r_pc = "while"
    /\ KeepsTrying(mtries)
    /\ \E outcome \in FuncOutcomes :
          /\ r_calls' = Append(r_calls, outcome)
          /\ IF outcome = "Exception"
             THEN r_pc' = "sleep" /\ UNCHANGED r_ret
             ELSE r_pc' = "done" /\ r_ret' = FuncResult(outcome)
    /\ UNCHANGED <<max_attempts, delay, backoff, mtries, mdelay, r_sleeps>>

\* lines 871-874: time.sleep(mdelay), which raises ValueError for a negative
\* argument and can be interrupted; then mtries -= 1 and mdelay *= backoff
SleepAndCount ==
    /\ r_pc = "sleep"
    /\ \E interrupted \in BOOLEAN :
          IF mdelay < 0
          THEN /\ r_ret' = Raise("ValueError")
               /\ r_pc' = "done"
               /\ UNCHANGED <<mtries, mdelay, r_sleeps>>
          ELSE IF interrupted
          THEN /\ r_ret' = Raise("KeyboardInterrupt")
               /\ r_pc' = "done"
               /\ UNCHANGED <<mtries, mdelay, r_sleeps>>
          ELSE /\ r_sleeps' = Append(r_sleeps, mdelay)
               /\ mtries' = mtries - 1
               /\ mdelay' = mdelay * backoff
               /\ r_pc' = "while"
               /\ UNCHANGED r_ret
    /\ UNCHANGED <<max_attempts, delay, backoff, r_calls>>

\* line 875: return func(*args, **kwargs), the last attempt
LastAttempt ==
    /\ r_pc = "while"
    /\ ~KeepsTrying(mtries)
    /\ \E outcome \in FuncOutcomes :
          /\ r_calls' = Append(r_calls, outcome)
          /\ r_ret' = FuncResult(outcome)
    /\ r_pc' = "done"
    /\ UNCHANGED <<max_attempts, delay, backoff, mtries, mdelay, r_sleeps>>

-----------------------------------------------------------------------------
(* UndetectedChromeDriver: get, statement by statement, and close.  The     *)
(* page the browser shows can change while get sleeps.                      *)

CheckingYourBrowser == <<"C","h","e","c","k","i","n","g"," ","y","o","u","r"," ",
                         "b","r","o","w","s","e","r">>
cloudflare == <<"c","l","o","u","d","f","l","a","r","e">>
captcha == <<"c","a","p","t","c","h","a">>
robot == <<"r","o","b","o","t">>

\* _is_cloudflare_challenge and _is_captcha_challenge, when page_source can be read
IsCloudflareChallenge(text) ==
    Contains(text, CheckingYourBrowser) \/ Contains(Lower(text), cloudflare)
IsCaptchaChallenge(text) ==
    Contains(Lower(text), captcha) \/ Contains(Lower(text), robot)

\* line 397: the condition of the if; a check whose read of page_source
\* raises anything, KeyboardInterrupt included, gives False
LooksLikeChallenge(text, fails1, fails2) ==
    (~fails1 /\ IsCloudflareChallenge(text)) \/ (~fails2 /\ IsCaptchaChallenge(text))

\* A plausible slip: a page that is still a challenge is not handed on.
PageSourceReturnedIfResolved(text) ==
    IF IsCloudflareChallenge(text) \/ IsCaptchaChallenge(text)
    THEN Return(None) ELSE Return(Str(text))

\* line 401: return self.driver.page_source
PageSourceReturned(text) == Return(Str(text))

CloudflarePage == <<"C","l","o","u","d","f","l","a","r","e">>
HumanPage == <<"V","e","r","i","f","y"," ","y","o","u","'","r","e"," ","a"," ",
               "h","u","m","a","n">>
BrowserPages == {<<>>, OkPage, CaptchaPage, CloudflarePage, HumanPage}

(* The get calls that are tried *)
DefaultWaitTime == 10
MaxWaitTime == 1
WaitTimes == 0..MaxWaitTime \cup {DefaultWaitTime}
MaxGets == 3
MaxCloses == 2

BrowserInit ==
    /\ b_pc = "idle"
    /\ wait_time = DefaultWaitTime
    /\ page_source = <<>>
    /\ b_sleeps = <<>>
    /\ b_look = [looked |-> FALSE]
    /\ b_gets = 0
    /\ b_log = <<>>
    /\ b_ret = NotCalled
    /\ driver = "None"
    /\ chrome_ok \in BOOLEAN

\* The driver objects uc.Chrome has returned are numbered in the order of
\* their creation; 0 stands for None.
DriversMade ==
    Cardinality({i \in 1..Len(b_log) : b_log[i].init \in {"ok", "setup_raised"}})
CurrentDriver == IF b_log = <<>> THEN 0 ELSE b_log[Len(b_log)].after
Closes == Len(b_log) - b_gets

\* UndetectedChromeDriver.initialize: returns at once if there is a driver
\* (lines 328-329); uc.Chrome raises and self.driver stays None, or it returns
\* and self.driver is assigned (line 352) before the commands that set the
\* driver up (lines 353-369), which can raise as well
Initialize(drv, can_start, setup_ok) ==
    IF drv # "None" THEN [driver |-> drv, init |-> "returned"]
    ELSE IF ~can_start THEN [driver |-> "None", init |-> "chrome_raised"]
    ELSE IF ~setup_ok THEN [driver |-> "chrome", init |-> "setup_raised"]
    ELSE [driver |-> "chrome", init |-> "ok"]

\* A plausible slip: a driver whose command failed is given up.
DriverAfterFailureDropped(drv) == "None"

\* lines 402-404: the except clause of get logs and raises; self.driver is
\* left as it is
DriverAfterFailure(drv) == drv

\* the call under way raised at a command of the driver
CommandFailed(at) ==
    /\ driver' = DriverAfterFailure(driver)
    /\ b_log' = [b_log EXCEPT ![Len(b_log)].nav = at,
                               ![Len(b_log)].after =
                                   IF driver' = "None" THEN 0 ELSE @]

\* get(url, wait_time) is called, lines 387-388: the driver is started if
\* there is none
BrowserGet ==
    /\ b_pc \in {"idle", "done"}
    /\ b_gets < MaxGets
    /\ b_gets' = b_gets + 1
    /\ wait_time' \in WaitTimes
    /\ b_sleeps' = <<>>
    /\ b_look' = [looked |-> FALSE]
    /\ \E setup_ok \in BOOLEAN :
          LET started == IF driver = "None"
                         THEN Initialize(driver, chrome_ok, setup_ok)
                         ELSE [driver |-> driver, init |-> "not_called"]
              raised == started.init \in {"chrome_raised", "setup_raised"}
              after == IF started.init \in {"ok", "setup_raised"} THEN DriversMade + 1
                       ELSE IF started.driver = "None" THEN 0
                       ELSE CurrentDriver
          IN  /\ driver' = started.driver
              /\ b_log' = Append(b_log, [op |-> "get", before |-> CurrentDriver,
                                          after |-> after, init |-> started.init,
                                          quit |-> "not_called", nav |-> "not_reached"])
              /\ b_ret' = IF raised THEN Raise("WebDriverException") ELSE NotCalled
              /\ b_pc' = IF raised THEN "done" ELSE "navigate"
    /\ UNCHANGED <<page_source, chrome_ok>>

\* close() is called, lines 422-429: quit() returns, raises an Exception,
\* which is logged, or is interrupted; with no driver nothing is done
BrowserClose ==
    /\ b_pc \in {"idle", "done"}
    /\ Closes < MaxCloses
    /\ \E outcome \in {"ok", "error", "interrupt"} :
          /\ driver' = IF driver # "None" THEN DriverAfterClose(driver, outcome) ELSE driver
          /\ b_log' = Append(b_log, [op |-> "close", before |-> CurrentDriver,
                                      after |-> IF driver' = "None" THEN 0 ELSE CurrentDriver,
                                      init |-> "not_called",
                                      quit |-> IF driver # "None" THEN outcome ELSE "not_called",
                                      nav |-> "not_reached"])
    /\ UNCHANGED <<b_pc, wait_time, page_source, b_sleeps, b_look, b_gets, b_ret, chrome_ok>>

\* line 391: self.driver.get(url)
Navigate ==
    /\ b_pc = "navigate"
    /\ \/ \E page \in BrowserPages :
             /\ page_source' = page
             /\ b_pc' = "settle"
             /\ b_log' = [b_log EXCEPT ![Len(b_log)].nav = "ok"]
             /\ UNCHANGED <<b_ret, driver>>
       \/ \E exc \in {"WebDriverException", "KeyboardInterrupt"} :
             /\ b_ret' = Raise(exc)
             /\ b_pc' = "done"
             /\ CommandFailed("raised")
             /\ UNCHANGED page_source
    /\ UNCHANGED <<wait_time, b_sleeps, b_look, b_gets, chrome_ok>>

\* line 394: time.sleep(wait_time)
Settle ==
    /\ b_pc = "settle"
    /\ \/ /\ b_sleeps' = Append(b_sleeps, wait_time)
          /\ page_source' \in BrowserPages
          /\ b_pc' = "check"
          /\ UNCHANGED b_ret
       \/ /\ b_ret' = Raise("KeyboardInterrupt")
          /\ b_pc' = "done"
          /\ UNCHANGED <<b_sleeps, page_source>>
    /\ UNCHANGED <<wait_time, b_look, b_gets, b_log, driver, chrome_ok>>

\* line 397: if self._is_cloudflare_challenge() or self._is_captcha_challenge()
CheckChallenge ==
    /\ b_pc = "check"
    /\ \E fails1 \in BOOLEAN, fails2 \in BOOLEAN :
          LET verdict == LooksLikeChallenge(page_source, fails1, fails2)
          IN  /\ b_look' = [looked |-> TRUE, page |-> page_source, verdict |-> verdict]
              /\ b_pc' = IF verdict THEN "wait_longer" ELSE "return"
    /\ UNCHANGED <<wait_time, page_source, b_sleeps, b_gets, b_log, b_ret, driver, chrome_ok>>

\* line 399: time.sleep(wait_time * 2)
WaitLonger ==
    /\ b_pc = "wait_longer"
    /\ \/ /\ b_sleeps' = Append(b_sleeps, wait_time * 2)
          /\ page_source' \in BrowserPages
          /\ b_pc' = "return"
          /\ UNCHANGED b_ret
       \/ /\ b_ret' = Raise("KeyboardInterrupt")
          /\ b_pc' = "done"
          /\ UNCHANGED <<b_sleeps, page_source>>
    /\ UNCHANGED <<wait_time, b_look, b_gets, b_log, driver, chrome_ok>>

\* line 401: return self.driver.page_source, which can fail as any command
\* of the driver can
ReturnPageSource ==
    /\ b_pc = "return"
    /\ \/ /\ b_ret' = PageSourceReturned(page_source)
          /\ UNCHANGED <<b_log, driver>>
       \/ /\ b_ret' = Raise("WebDriverException")
          /\ CommandFailed("ok")
    /\ b_pc' = "done"
    /\ UNCHANGED <<wait_time, page_source, b_sleeps, b_look, b_gets, chrome_ok>>

-----------------------------------------------------------------------------
(* Threads sharing one ProxyManager and one CookieManager.  Each thread     *)
(* runs one operation; CPython can switch threads between any two           *)
(* statements, and the code takes no lock.  CookieJar.set_cookie takes the  *)
(* jar's own lock, so it is one step.                                       *)

Threads == {1, 2}

GetProxyOp == [name |-> "get_proxy"]
MarkBadProxyOp(proxy) == [name |-> "mark_bad_proxy", proxy |-> proxy]
UpdateFromResponseOp(cookies) == [name |-> "update_from_response", cookies |-> cookies]

ThreadResponses ==
    {<<SessionCookie>>, <<Cookie("d1", "/", "n", "v1"), Cookie("d1", "/", "m", "v0")>>}
ThreadOps ==
    {GetProxyOp}
    \cup {MarkBadProxyOp(p) : p \in {ProxyA, ProxyB}}
    \cup {UpdateFromResponseOp(cs) : cs \in ThreadResponses}

NoLocals == [proxy |-> <<>>, todo |-> <<>>]
\* what a thread's operation returned or raised; stale: the proxy returned
\* was no longer in self.proxies when get_proxy returned it
Result(res, stale) == [res |-> res, stale |-> stale]

ThreadInit ==
    /\ t_pc = [t \in Threads |-> "idle"]
    /\ t_op = [t \in Threads |-> [name |-> "none"]]
    /\ t_local = [t \in Threads |-> NoLocals]
    /\ t_ret = [t \in Threads |-> Result(NotCalled, FALSE)]

\* a thread calls one of the operations
Begin(t) ==
    /\ t_pc[t] = "idle"
    /\ \E op \in ThreadOps :
          /\ t_op' = [t_op EXCEPT ![t] = op]
          /\ t_pc' = [t_pc EXCEPT ![t] = op.name]
          /\ t_local' = [t_local EXCEPT ![t] =
                 IF op.name = "update_from_response"
                 THEN [NoLocals EXCEPT !.todo = op.cookies] ELSE NoLocals]
    /\ UNCHANGED <<t_ret, proxy_vars, cookie_vars>>

\* get_proxy, lines 85-86: if not self.proxies: return None
GetProxyCheck(t) ==
    /\ t_pc[t] = "get_proxy"
    /\ IF proxies = <<>>
       THEN /\ t_ret' = [t_ret EXCEPT ![t] = Result(Return(None), FALSE)]
            /\ t_pc' = [t_pc EXCEPT ![t] = "done"]
       ELSE /\ t_pc' = [t_pc EXCEPT ![t] = "get_proxy_read"]
            /\ UNCHANGED t_ret
    /\ UNCHANGED <<t_op, t_local, proxy_vars, cookie_vars>>

\* get_proxy, line 88: proxy = self.proxies[self.current_index]
GetProxyRead(t) ==
    /\ t_pc[t] = "get_proxy_read"
    /\ IF current_index >= Len(proxies)
       THEN /\ t_ret' = [t_ret EXCEPT ![t] = Result(Raise("IndexError"), FALSE)]
            /\ t_pc' = [t_pc EXCEPT ![t] = "done"]
            /\ UNCHANGED t_local
       ELSE /\ t_local' = [t_local EXCEPT ![t].proxy = proxies[current_index + 1]]
            /\ t_pc' = [t_pc EXCEPT ![t] = "get_proxy_advance"]
            /\ UNCHANGED t_ret
    /\ UNCHANGED <<t_op, proxy_vars, cookie_vars>>

\* get_proxy, line 89: self.current_index = (self.current_index + 1) % len(self.proxies)
GetProxyAdvance(t) ==
    /\ t_pc[t] = "get_proxy_advance"
    /\ IF proxies = <<>>
       THEN /\ t_ret' = [t_ret EXCEPT ![t] = Result(Raise("ZeroDivisionError"), FALSE)]
            /\ t_pc' = [t_pc EXCEPT ![t] = "done"]
            /\ UNCHANGED current_index
       ELSE /\ current_index' = (current_index + 1) % Len(proxies)
            /\ t_pc' = [t_pc EXCEPT ![t] = "get_proxy_return"]
            /\ UNCHANGED t_ret
    /\ UNCHANGED <<t_op, t_local, proxies, pm_ret, marked, loaded, served, cookie_vars>>

\* get_proxy, lines 91-94: the dict is returned
GetProxyReturn(t) ==
    /\ t_pc[t] = "get_proxy_return"
    /\ t_ret' = [t_ret EXCEPT ![t] =
           Result(Return(ProxyDict(t_local[t].proxy)), ~InList(t_local[t].proxy, proxies))]
    /\ t_pc' = [t_pc EXCEPT ![t] = "done"]
    /\ UNCHANGED <<t_op, t_local, proxy_vars, cookie_vars>>

\* mark_bad_proxy, line 103: if proxy in self.proxies
MarkBadProxyCheck(t) ==
    /\ t_pc[t] = "mark_bad_proxy"
    /\ IF InList(t_op[t].proxy, proxies)
       THEN /\ t_pc' = [t_pc EXCEPT ![t] = "mark_bad_proxy_remove"]
            /\ UNCHANGED t_ret
       ELSE /\ t_ret' = [t_ret EXCEPT ![t] = Result(Return(None), FALSE)]
            /\ t_pc' = [t_pc EXCEPT ![t] = "done"]
    /\ UNCHANGED <<t_op, t_local, proxy_vars, cookie_vars>>

\* mark_bad_proxy, line 104: self.proxies.remove(proxy), which raises
\* ValueError when the proxy is not in the list
MarkBadProxyRemove(t) ==
    /\ t_pc[t] = "mark_bad_proxy_remove"
    /\ IF InList(t_op[t].proxy, proxies)
       THEN /\ proxies' = ListRemove(proxies, t_op[t].proxy)
            /\ marked' = marked \cup {t_op[t].proxy}
            /\ t_ret' = [t_ret EXCEPT ![t] = Result(Return(None), FALSE)]
       ELSE /\ t_ret' = [t_ret EXCEPT ![t] = Result(Raise("ValueError"), FALSE)]
            /\ UNCHANGED <<proxies, marked>>
    /\ t_pc' = [t_pc EXCEPT ![t] = "done"]
    /\ UNCHANGED <<t_op, t_local, current_index, pm_ret, loaded, served, cookie_vars>>

\* update_from_response, lines 195-196: one turn of the loop
UpdateFromResponseStep(t) ==
    /\ t_pc[t] = "update_from_response"
    /\ IF t_local[t].todo = <<>>
       THEN /\ t_ret' = [t_ret EXCEPT ![t] = Result(Return(None), FALSE)]
            /\ t_pc' = [t_pc EXCEPT ![t] = "done"]
            /\ UNCHANGED <<t_local, cookie_jar>>
       ELSE /\ cookie_jar' = SetCookie(cookie_jar, Head(t_local[t].todo))
            /\ t_local' = [t_local EXCEPT ![t].todo = Tail(t_local[t].todo)]
            /\ UNCHANGED <<t_pc, t_ret>>
    /\ UNCHANGED <<t_op, proxy_vars, last_cookies, prev_names, before_repeat>>

-----------------------------------------------------------------------------
(* Values of the variables a specification does not move *)

ClassifyIdle == c_html = None /\ c_result = "unset"

CookieIdle == CookieInit

FetchIdle ==
    /\ use_browser = FALSE
    /\ use_proxies = FALSE
    /\ max_retries = 0
    /\ retry_delay = 0
    /\ pc = "idle"
    /\ methods = <<>>
    /\ attempt = 0
    /\ pos = 0
    /\ calls = <<>>
    /\ ncalls = 0
    /\ sleeps = <<>>
    /\ ret = NotCalled
    /\ sessions = InitScrapers
    /\ driver = "None"
    /\ browser_proxy = None
    /\ chrome_ok = TRUE
    /\ observed = <<>>
    /\ identity = NoIdentity
    /\ cancelled = FALSE

StoreIdle ==
    /\ cookie_file = None
    /\ disk = NoCookieFile
    /\ cm_ret = [op |-> "__init__", res |-> Return(None)]

OwnerIdle ==
    /\ owner = "none"
    /\ owner_pc = "none"
    /\ cf_ok = TRUE
    /\ scraper_built = TRUE
    /\ pending = None
    /\ closes = 0
    /\ exit_status = NotCalled

ThreadIdle ==
    /\ t_pc = <<>>
    /\ t_op = <<>>
    /\ t_local = <<>>
    /\ t_ret = <<>>

BrowserIdle ==
    /\ b_pc = "none"
    /\ wait_time = 0
    /\ page_source = <<>>
    /\ b_sleeps = <<>>
    /\ b_look = <<>>
    /\ b_gets = 0
    /\ b_log = <<>>
    /\ b_ret = NotCalled

ApiIdle ==
    /\ api = "none"
    /\ api_pc = "none"
    /\ parsed = <<>>
    /\ api_ret = NotCalled

RetryIdle ==
    /\ max_attempts = 0
    /\ delay = 0
    /\ backoff = 0
    /\ mtries = 0
    /\ mdelay = 0
    /\ r_pc = "none"
    /\ r_calls = <<>>
    /\ r_sleeps = <<>>
    /\ r_ret = NotCalled

CfIdle ==
    /\ headers = <<>>
    /\ user_agent = "none"
    /\ cf_ret = [op |-> "__init__", res |-> Return(None)]

OtherIdle == BrowserIdle /\ ApiIdle /\ RetryIdle /\ CfIdle

ProxyIdle ==
    /\ proxies = <<>>
    /\ current_index = 0
    /\ pm_ret = [op |-> "__init__", res |-> Return(None)]
    /\ marked = {}
    /\ loaded = <<>>
    /\ served = <<>>

-----------------------------------------------------------------------------
(* _is_valid_page called on its own *)

DoClassify ==
    /\ c_result = "unset"
    /\ c_result' = Classify(c_html)
    /\ UNCHANGED c_html

-----------------------------------------------------------------------------
(* The specifications *)

\* one _get_page call of a newly constructed AmazonScraper
Init == ScraperInit /\ ClassifyIdle /\ StoreIdle /\ OwnerIdle /\ ThreadIdle /\ OtherIdle
Next ==
    \/ EnterGetPage /\ UNCHANGED <<classify_vars, store_vars, owner_vars, thread_vars, other_vars>>
    \/ ShuffleMethods /\ UNCHANGED <<classify_vars, store_vars, owner_vars, thread_vars, other_vars>>
    \/ CallMethod /\ UNCHANGED <<classify_vars, store_vars, owner_vars, thread_vars, other_vars>>
    \/ BackoffSleep /\ UNCHANGED <<classify_vars, store_vars, owner_vars, thread_vars, other_vars>>
    \/ ReturnNone /\ UNCHANGED <<classify_vars, store_vars, owner_vars, thread_vars, other_vars>>
Spec == Init /\ [][Next]_vars

InitClassify ==
    /\ c_html \in ClassifyInputs
    /\ c_result = "unset"
    /\ ProxyIdle /\ CookieIdle /\ FetchIdle /\ StoreIdle /\ OwnerIdle /\ ThreadIdle
    /\ OtherIdle
NextClassify ==
    DoClassify /\ UNCHANGED <<proxy_vars, cookie_vars, config_vars, fetch_vars,
                              strategy_vars, store_vars, owner_vars, thread_vars, other_vars>>
SpecClassify == InitClassify /\ [][NextClassify]_vars

InitProxy ==
    /\ ProxyInit /\ ClassifyIdle /\ CookieIdle /\ FetchIdle /\ StoreIdle /\ OwnerIdle
    /\ ThreadIdle /\ OtherIdle
NextProxy ==
    \/ DoGetProxy /\ UNCHANGED <<classify_vars, cookie_vars, config_vars, fetch_vars,
                                  strategy_vars, store_vars, owner_vars, thread_vars, other_vars>>
    \/ DoMarkBadProxy /\ UNCHANGED <<classify_vars, cookie_vars, config_vars, fetch_vars,
                                      strategy_vars, store_vars, owner_vars, thread_vars, other_vars>>
SpecProxy == InitProxy /\ [][NextProxy]_vars

\* two threads, each running one operation on the shared rotators
InitThreads ==
    /\ ProxyInit /\ CookieInit /\ ThreadInit /\ ClassifyIdle /\ FetchIdle /\ StoreIdle
    /\ OwnerIdle /\ OtherIdle
ThreadsLeave ==
    UNCHANGED <<classify_vars, config_vars, fetch_vars, strategy_vars, store_vars, owner_vars, other_vars>>
NextThreads ==
    \/ \E t \in Threads : Begin(t) /\ ThreadsLeave
    \/ \E t \in Threads : GetProxyCheck(t) /\ ThreadsLeave
    \/ \E t \in Threads : GetProxyRead(t) /\ ThreadsLeave
    \/ \E t \in Threads : GetProxyAdvance(t) /\ ThreadsLeave
    \/ \E t \in Threads : GetProxyReturn(t) /\ ThreadsLeave
    \/ \E t \in Threads : MarkBadProxyCheck(t) /\ ThreadsLeave
    \/ \E t \in Threads : MarkBadProxyRemove(t) /\ ThreadsLeave
    \/ \E t \in Threads : UpdateFromResponseStep(t) /\ ThreadsLeave
SpecThreads == InitThreads /\ [][NextThreads]_vars

\* one search_products or get_product_details call of a new AmazonScraper
InitApi ==
    /\ ScraperInit /\ ApiInit
    /\ ClassifyIdle /\ StoreIdle /\ OwnerIdle /\ ThreadIdle /\ BrowserIdle /\ RetryIdle /\ CfIdle
NextApi ==
    \/ /\ api_pc = "fetch"
       /\ \/ EnterGetPage
          \/ ShuffleMethods
          \/ CallMethod
          \/ BackoffSleep
          \/ ReturnNone
       /\ UNCHANGED <<classify_vars, store_vars, owner_vars, thread_vars, other_vars>>
    \/ AfterGetPage /\ UNCHANGED <<classify_vars, store_vars, owner_vars, thread_vars,
                                    browser_vars, retry_vars, cf_vars>>
SpecApi == InitApi /\ [][NextApi]_vars

\* get_with_cloudscraper and get_with_tls_client calls on one CloudflareBypass
CfLeaves ==
    UNCHANGED <<classify_vars, proxy_vars, cookie_vars, config_vars, fetch_vars,
                driver, browser_proxy, chrome_ok, observed, identity, cancelled,
                store_vars, owner_vars, thread_vars, browser_vars, api_vars, retry_vars>>
InitCf ==
    /\ CfInit
    /\ driver = "None" /\ browser_proxy = None /\ chrome_ok = TRUE /\ observed = <<>>
    /\ identity = NoIdentity /\ cancelled = FALSE
    /\ use_browser = FALSE /\ use_proxies = FALSE /\ max_retries = 0 /\ retry_delay = 0
    /\ pc = "idle" /\ methods = <<>> /\ attempt = 0 /\ pos = 0 /\ calls = <<>>
    /\ ncalls = 0 /\ sleeps = <<>> /\ ret = NotCalled
    /\ ClassifyIdle /\ ProxyIdle /\ CookieIdle /\ StoreIdle /\ OwnerIdle /\ ThreadIdle
    /\ BrowserIdle /\ ApiIdle /\ RetryIdle
NextCf ==
    \/ DoCfGet("scraper") /\ CfLeaves
    \/ DoCfGet("tls_client") /\ CfLeaves
SpecCf == InitCf /\ [][NextCf]_vars

\* one call of a function wrapped by retry
RetryLeaves ==
    UNCHANGED <<classify_vars, proxy_vars, cookie_vars, config_vars, fetch_vars,
                strategy_vars, store_vars, owner_vars, thread_vars, browser_vars, api_vars,
                cf_vars>>
InitRetry ==
    /\ RetryInit
    /\ ClassifyIdle /\ ProxyIdle /\ CookieIdle /\ FetchIdle /\ StoreIdle /\ OwnerIdle
    /\ ThreadIdle /\ BrowserIdle /\ ApiIdle /\ CfIdle
NextRetry ==
    \/ EnterWrapper /\ RetryLeaves
    \/ TryFunc /\ RetryLeaves
    \/ SleepAndCount /\ RetryLeaves
    \/ LastAttempt /\ RetryLeaves
SpecRetry == InitRetry /\ [][NextRetry]_vars

\* get and close calls on one UndetectedChromeDriver
BrowserLeaves ==
    UNCHANGED <<classify_vars, proxy_vars, cookie_vars, config_vars, fetch_vars,
                sessions, browser_proxy, observed, identity, cancelled,
                store_vars, owner_vars, thread_vars, api_vars, retry_vars, cf_vars>>
InitBrowser ==
    /\ BrowserInit
    /\ sessions = InitScrapers /\ browser_proxy = None /\ observed = <<>>
    /\ identity = NoIdentity /\ cancelled = FALSE
    /\ use_browser = TRUE /\ use_proxies = FALSE /\ max_retries = 0 /\ retry_delay = 0
    /\ pc = "idle" /\ methods = <<>> /\ attempt = 0 /\ pos = 0 /\ calls = <<>>
    /\ ncalls = 0 /\ sleeps = <<>> /\ ret = NotCalled
    /\ ClassifyIdle /\ ProxyIdle /\ CookieIdle /\ StoreIdle /\ OwnerIdle /\ ThreadIdle
    /\ ApiIdle /\ RetryIdle /\ CfIdle
NextBrowser ==
    \/ BrowserGet /\ BrowserLeaves
    \/ BrowserClose /\ BrowserLeaves
    \/ Navigate /\ BrowserLeaves
    \/ Settle /\ BrowserLeaves
    \/ CheckChallenge /\ BrowserLeaves
    \/ WaitLonger /\ BrowserLeaves
    \/ ReturnPageSource /\ BrowserLeaves
SpecBrowser == InitBrowser /\ [][NextBrowser]_vars

\* an owner constructs a scraper, fetches one page with it and closes it
InitOwner == ScraperInit /\ OwnerInit /\ ClassifyIdle /\ StoreIdle /\ ThreadIdle /\ OtherIdle
NextOwner ==
    \/ Construct /\ UNCHANGED <<classify_vars, store_vars, thread_vars, other_vars>>
    \/ /\ owner_pc = "action"
       /\ \/ EnterGetPage
          \/ ShuffleMethods
          \/ CallMethod
          \/ BackoffSleep
          \/ ReturnNone
       /\ UNCHANGED <<classify_vars, store_vars, owner_vars, thread_vars, other_vars>>
    \/ FetchReturns /\ UNCHANGED <<classify_vars, store_vars, thread_vars, other_vars>>
    \/ Output /\ UNCHANGED <<classify_vars, store_vars, thread_vars, other_vars>>
    \/ Except /\ UNCHANGED <<classify_vars, store_vars, thread_vars, other_vars>>
    \/ Finally /\ UNCHANGED <<classify_vars, store_vars, thread_vars, other_vars>>
SpecOwner == InitOwner /\ [][NextOwner]_vars

\* a CookieManager constructed on a cookie file, then merges and saves
InitCookieFile ==
    /\ CookieFileInit /\ ClassifyIdle /\ ProxyIdle /\ FetchIdle /\ OwnerIdle /\ ThreadIdle
    /\ OtherIdle
NextCookieFile ==
    \/ DoSaveCookies /\ UNCHANGED <<classify_vars, proxy_vars, config_vars, fetch_vars,
                                     strategy_vars, owner_vars, thread_vars, other_vars>>
    \/ DoUpdateOneCookie /\ UNCHANGED <<classify_vars, proxy_vars, config_vars, fetch_vars,
                                         strategy_vars, owner_vars, thread_vars, other_vars>>
SpecCookieFile == InitCookieFile /\ [][NextCookieFile]_vars

InitCookie ==
    /\ CookieInit /\ ClassifyIdle /\ ProxyIdle /\ FetchIdle /\ StoreIdle /\ OwnerIdle
    /\ ThreadIdle /\ OtherIdle
NextCookie ==
    DoUpdateFromResponse /\ UNCHANGED <<classify_vars, proxy_vars, config_vars, fetch_vars,
                                        strategy_vars, store_vars, owner_vars, thread_vars, other_vars>>
SpecCookie == InitCookie /\ [][NextCookie]_vars

-----------------------------------------------------------------------------
(* The claims *)

\* s holds an indicator when letter case is ignored, compared letter by letter
HasMarkerIgnoringCase(s) ==
    \E k \in DOMAIN challenge_indicators :
        LET m == challenge_indicators[k]
        IN  \E i \in 0..(Len(s) - Len(m)) :
                \A j \in 1..Len(m) : UpperChar(s[i + j]) = UpperChar(m[j])

Succeeded == pc = "done" /\ ret.tag = "return" /\ ret.val # None
LastCall == calls[Len(calls)]
Outcomes == [i \in DOMAIN calls |-> calls[i].outcome]

(* C1: whatever _get_page returns other than None is content that           *)
(* _is_valid_page labels VALID: it is a non-empty string holding no         *)
(* challenge indicator in any letter case.                                  *)
C1_ReturnedContentIsValid ==
    Succeeded =>
        /\ Classify(ret.val) = "VALID"
        /\ ret.val.tag = "str"
        /\ ret.val.text # <<>>
        /\ ~HasMarkerIgnoringCase(ret.val.text)

\* a page that mentions a robot is returned after a challenge page was turned down
C1_Witness ==
    /\ Succeeded
    /\ ret.val = Str(RobotPage)
    /\ \E i \in DOMAIN calls : calls[i].outcome = "challenge"

(* C2: _is_valid_page labels CHALLENGE every content holding an indicator   *)
(* in any letter case, VALID every non-empty content holding none, and      *)
(* CHALLENGE the empty string and None.                                     *)
C2_ClassifierContract ==
    c_result # "unset" =>
        c_result = IF c_html.tag = "None" THEN "CHALLENGE"
                   ELSE IF c_html.text = <<>> THEN "CHALLENGE"
                   ELSE IF HasMarkerIgnoringCase(c_html.text) THEN "CHALLENGE"
                   ELSE "VALID"

\* an indicator in capitals, with padding around it, is labelled CHALLENGE
C2_Witness ==
    /\ c_result = "CHALLENGE"
    /\ c_html.tag = "str"
    /\ Contains(c_html.text, Upper(challenge_indicators[2]))
    /\ Len(c_html.text) > Len(challenge_indicators[2])

(* C3: a strategy that fails technically or returns a challenge page does   *)
(* not end the pass, and the first strategy of a pass to return VALID       *)
(* content ends _get_page at once with that content, before any further     *)
(* backoff: with k failures first and the (k+1)th strategy VALID in the     *)
(* first pass, the content is returned during attempt 1.                    *)
C3_FallthroughThenSuccess ==
    /\ \A i \in DOMAIN calls :
          calls[i].outcome = "valid" =>
              /\ i = Len(calls)
              /\ pc = "done"
              /\ ret = Return(calls[i].html)
              /\ Len(sleeps) = attempt
    /\ (pc = "done" /\ calls # <<>> /\ LastCall.outcome \in {"technical", "challenge"})
          => Len(calls) = Len(methods)
    /\ pc = "for_method" => Len(calls) = pos

\* three strategies: the first fails technically, the second returns a
\* challenge, the third returns <html>OK</html>, in attempt 1
C3_Witness ==
    /\ Len(methods) = 3
    /\ attempt = 0
    /\ sleeps = <<>>
    /\ Outcomes = <<"technical", "challenge", "valid">>
    /\ pc = "done"
    /\ ret = Return(Str(OkPage))

NoStrategySucceeded ==
    /\ pc = "done"
    /\ ~Succeeded
    /\ ret # Raise("KeyboardInterrupt")

IsPermutation(s, t) ==
    /\ Len(s) = Len(t)
    /\ \A x \in Elements(s) \cup Elements(t) :
          Cardinality({i \in DOMAIN s : s[i] = x}) = Cardinality({i \in DOMAIN t : t[i] = x})

CalledMethods == [i \in DOMAIN calls |-> calls[i].method]

(* C4: when every strategy always fails, _get_page with max_retries = N     *)
(* (N >= 0) makes exactly N passes, each calling every available strategy   *)
(* once in some order, and then returns None.                               *)
C4_Original ==
    /\ (NoStrategySucceeded /\ max_retries >= 0) =>
          /\ ret = Return(None)
          /\ attempt = max_retries
          /\ ncalls = max_retries * Len(AvailableMethods(use_browser))
    /\ (pc = "for_method" /\ pos = Len(methods)) =>
          IsPermutation(CalledMethods, AvailableMethods(use_browser))

\* what holds of C4 when the configured delay is not negative
C4_WithNonNegativeDelay == retry_delay >= 0 => C4_Original

NonNeg(n) == IF n < 0 THEN 0 ELSE n

NoDuplicates(lst) == \A i, j \in DOMAIN lst : lst[i] = lst[j] => i = j
NoBlanks(lst) == \A i \in DOMAIN lst : lst[i] # <<>>

(* C6: after mark_bad_proxy(p) no later get_proxy call returns p, and once  *)
(* every loaded proxy was marked bad get_proxy returns None; stated here    *)
(* for the pools that hold no blank entry.                                  *)
C6_Original ==
    (NoBlanks(loaded) /\ pm_ret.op = "get_proxy") =>
        /\ (pm_ret.res.tag = "return" /\ pm_ret.res.val # None)
              => pm_ret.res.val.https \notin marked
        /\ Elements(loaded) \subseteq marked => pm_ret.res = Return(None)

\* what holds of C6 when the pool was loaded without a duplicate
C6_WithoutDuplicates ==
    (NoDuplicates(loaded) /\ pm_ret.op = "get_proxy") =>
        /\ (pm_ret.res.tag = "return" /\ pm_ret.res.val # None)
              => pm_ret.res.val.https \notin marked
        /\ Elements(loaded) \subseteq marked => pm_ret.res = Return(None)

(* C7: the rotation cursor is an index of a live entry, or the pool is      *)
(* empty, so get_proxy never indexes outside the pool; stated here for the  *)
(* pools that were loaded without a duplicate and without a blank entry.    *)
C7_Original ==
    (NoDuplicates(loaded) /\ NoBlanks(loaded)) =>
        /\ proxies = <<>> \/ (0 <= current_index /\ current_index < Len(proxies))
        /\ pm_ret.res # Raise("IndexError")

(* C8: update_from_response is idempotent: merging the cookies of a         *)
(* response a second time leaves the jar as the first merge left it.        *)
C8_MergeIdempotent ==
    before_repeat # NoRepeat =>
        /\ cookie_jar = before_repeat
        /\ GetCookieDict(cookie_jar) = GetCookieDict(before_repeat)

\* two cookies of one name and two domains were merged twice in a row
C8_Witness ==
    /\ before_repeat # NoRepeat
    /\ Len(last_cookies) = 2
    /\ last_cookies[1].name = last_cookies[2].name
    /\ last_cookies[1].domain # last_cookies[2].domain
    /\ Len(JarCookies(cookie_jar)) >= 3

NameOccursOnce(cookies, name) ==
    Cardinality({i \in DOMAIN cookies : cookies[i].name = name}) = 1

(* C9: after a cookie named n with value v is merged, get_cookie_dict maps  *)
(* n to v, and every name it held before the merge it still holds,          *)
(* whatever domains and paths the stored cookies carry.                     *)
C9_Original ==
    last_cookies # NoUpdate =>
        LET snapshot == GetCookieDict(cookie_jar)
        IN  /\ \A i \in DOMAIN last_cookies :
                  NameOccursOnce(last_cookies, last_cookies[i].name) =>
                      /\ DictHas(snapshot, last_cookies[i].name)
                      /\ DictGet(snapshot, last_cookies[i].name) = last_cookies[i].value
            /\ prev_names \subseteq DictKeys(snapshot)

(* C10: within one _get_page call the delays slept are non-decreasing from  *)
(* one attempt to the next, for every retry_delay, negative ones included.  *)
C10_BackoffNonDecreasing ==
    \A i, j \in DOMAIN sleeps : i <= j => sleeps[i] <= sleeps[j]

\* two sleeps were completed and the second was longer
C10_Witness ==
    /\ Len(sleeps) >= 2
    /\ sleeps[1] < sleeps[2]
    /\ retry_delay > 0

PassFailed == pc = "for_method" /\ pos = Len(methods)

(* C11: when every strategy of attempt a (counted from 1) failed and the    *)
(* sleep is not interrupted, _get_page sleeps retry_delay * a and then goes *)
(* on to attempt a + 1; attempt a + 1 begins only after a completed sleeps  *)
(* of retry_delay * 1, ..., retry_delay * a.                                *)
C11_Original ==
    [][/\ (PassFailed /\ ret' # Raise("KeyboardInterrupt")) =>
              /\ sleeps' = Append(sleeps, retry_delay * (attempt + 1))
              /\ attempt' = attempt + 1
              /\ pc' = "for_attempt"
       /\ attempt' # attempt =>
              /\ attempt' = attempt + 1
              /\ sleeps' = Append(sleeps, retry_delay * attempt')
       /\ pc' = "for_method" =>
              sleeps' = [k \in 1..attempt' |-> retry_delay * k]]_vars

\* what holds of C11 when the configured delay is not negative
C11_WithNonNegativeDelay ==
    [][retry_delay >= 0 =>
          /\ (PassFailed /\ ret' # Raise("KeyboardInterrupt")) =>
                 /\ sleeps' = Append(sleeps, retry_delay * (attempt + 1))
                 /\ attempt' = attempt + 1
                 /\ pc' = "for_attempt"
          /\ attempt' # attempt =>
                 /\ attempt' = attempt + 1
                 /\ sleeps' = Append(sleeps, retry_delay * attempt')
          /\ pc' = "for_method" =>
                 sleeps' = [k \in 1..attempt' |-> retry_delay * k]]_vars

TechnicalFailures == {"WebDriverException", "RequestException", "IndexError"}

(* C12: an exception a strategy raises for a technical failure never comes  *)
(* out of _get_page: the strategy after it in the same pass is called, and  *)
(* when it was the last of the pass the backoff follows.                    *)
C12_TechnicalFailureCaught ==
    /\ ret.tag = "raise" => ret.exc \notin TechnicalFailures
    /\ \A i \in DOMAIN calls :
          calls[i].outcome = "technical" =>
              \/ i < Len(calls)
              \/ pc = "for_method" /\ pos = i
              \/ pc \in {"for_attempt", "done"} /\ i = Len(methods)

\* the browser driver failed first and the strategy called after it in the
\* same pass returned the page
C12_Witness ==
    /\ Len(calls) >= 2
    /\ calls[1].method = "_get_with_browser"
    /\ calls[1].outcome = "technical"
    /\ calls[2].outcome = "valid"
    /\ ret = Return(Str(OkPage))

JarHolds(jar, cookie) ==
    \E i \in DOMAIN JarCookies(jar) : JarCookies(jar)[i] = cookie

(* C13: the cookies of the response a strategy call obtained are in the     *)
(* cookie jar when the call is over, whatever the status of the response    *)
(* and whichever the strategy, _get_with_browser included.                  *)
C13_Original ==
    \A i \in DOMAIN observed : JarHolds(cookie_jar, observed[i])

\* what holds of C13: the content an HTTP strategy returned as VALID had its
\* cookies merged
C13_ValidHttpResponseMerged ==
    (calls # <<>> /\ LastCall.method # "_get_with_browser" /\ LastCall.outcome = "valid")
        => C13_Original

(* C14: every strategy call inside _get_page is made with a proxy that      *)
(* get_proxy returned for this call, when proxies are configured, and with  *)
(* a user agent drawn for this call.                                        *)
C14_Original ==
    (calls # <<>> /\ LastCall.outcome # "interrupt") =>
        /\ use_proxies => (identity.rotated /\ identity.proxy # None)
        /\ identity.ua_fresh

\* what holds of C14: _get_with_requests draws its proxy and its user agent
\* for every call
C14_PlainHttpFresh ==
    (calls # <<>> /\ LastCall.method = "_get_with_requests") =>
        /\ use_proxies => (identity.rotated /\ identity.proxy # None)
        /\ identity.ua_fresh

C17_Original ==
    /\ cancelled => (pc = "done" /\ ret = Raise("KeyboardInterrupt"))
    /\ ret = Raise("KeyboardInterrupt") => cancelled

\* what holds of C17: the interrupts delivered anywhere but in the challenge
\* checks of the browser driver
C17_OutsideChallengeCheck ==
    (cancelled /\ (LastCall.method # "_get_with_browser" \/ LastCall.outcome = "interrupt"))
        => (pc = "done" /\ ret = Raise("KeyboardInterrupt"))

(* C20: CookieManager(cookie_file) never raises, and when the file is       *)
(* missing or corrupt the jar it starts with is empty; a save_cookies that  *)
(* fails raises nothing and leaves the jar as it was.                       *)
C20_Original ==
    /\ cm_ret.res.tag # "raise"
    /\ (cm_ret.op = "__init__" /\ cookie_file # None /\ (~disk.exists \/ IsCorrupt(disk)))
          => cookie_jar = EmptyJar
    /\ (cm_ret.op = "save_cookies" /\ cm_ret.failed) => cookie_jar = cm_ret.jar_before

\* what holds of C20: nothing is raised, a missing file or one whose header
\* or first line is corrupt gives an empty jar, a failed save changes nothing
C20_CorruptFromTheStart ==
    /\ cm_ret.res.tag # "raise"
    /\ (/\ cm_ret.op = "__init__"
        /\ cookie_file # None
        /\ \/ ~disk.exists
           \/ ~disk.header_ok
           \/ (disk.lines # <<>> /\ disk.lines[1] = Garbage))
          => cookie_jar = EmptyJar
    /\ (cm_ret.op = "save_cookies" /\ cm_ret.failed) => cookie_jar = cm_ret.jar_before

(* C18: on every way out of main or of an example function taken after the  *)
(* scraper was constructed, scraper.close() was called exactly once, at the *)
(* end, and after it self.browser.driver is None.                           *)
C18_ClosedExactlyOnce ==
    /\ owner_pc # "exit" => closes = 0
    /\ (owner_pc = "exit" /\ scraper_built) => (closes = 1 /\ driver = "None")
    /\ (owner_pc = "exit" /\ ~scraper_built) => closes = 0

\* main was interrupted while the browser was running: it returns 130, the
\* scraper closed once and the driver released
C18_Witness ==
    /\ owner = "main"
    /\ owner_pc = "exit"
    /\ exit_status = Return(130)
    /\ \E i \in DOMAIN calls :
          calls[i].method = "_get_with_browser" /\ calls[i].outcome = "challenge"
    /\ closes = 1
    /\ driver = "None"

CannotInitialize == ~cf_ok \/ (use_browser /\ ~chrome_ok)

(* C19: when a configured strategy cannot be initialized, the browser       *)
(* driver included, the AmazonScraper constructor raises: no scraper is     *)
(* built and no strategy is ever called.                                    *)
C19_Original ==
    (CannotInitialize /\ owner_pc # "construct") => (~scraper_built /\ ncalls = 0)

\* what holds of C19: a CloudflareBypass that cannot be initialized makes the
\* constructor raise
C19_CloudflareBypassFailsFast ==
    (~cf_ok /\ owner_pc # "construct") => (~scraper_built /\ ncalls = 0)

AllThreadsDone == \A t \in Threads : t_pc[t] = "done"

\* every cookie a thread merged has its place in the jar, holding the value
\* some thread merged there
MergesKept ==
    \A t \in Threads :
        t_op[t].name = "update_from_response" =>
            \A i \in DOMAIN t_op[t].cookies :
                \E u \in Threads :
                    /\ t_op[u].name = "update_from_response"
                    /\ \E j \in DOMAIN t_op[u].cookies :
                          /\ t_op[u].cookies[j].name = t_op[t].cookies[i].name
                          /\ JarHolds(cookie_jar, t_op[u].cookies[j])

(* C16: with threads sharing the rotators, no interleaving of get_proxy,    *)
(* mark_bad_proxy and update_from_response makes an operation raise, makes  *)
(* get_proxy return a proxy that was already removed, or loses a merged     *)
(* cookie; stated here for the pools loaded with one proxy, on which no     *)
(* sequence of whole operations fails.                                      *)
C16_Original ==
    Len(loaded) = 1 =>
        /\ \A t \in Threads : t_ret[t].res.tag # "raise" /\ ~t_ret[t].stale
        /\ AllThreadsDone => MergesKept

\* what holds of C16: no merged cookie is lost, set_cookie being atomic
C16_MergesKept == AllThreadsDone => MergesKept

\* the entries the constructor took from its argument proxies
FromList(proxy_list) ==
    IF proxy_list.tag = "list" THEN proxy_list.items ELSE <<>>

JustConstructed == pm_ret.op = "__init__" /\ "proxy_list" \in DOMAIN pm_ret

(* C21: the pool ProxyManager(proxies, proxy_file) loads holds no duplicate *)
(* and no blank entry, whatever the list and the file hold; a proxy file    *)
(* that does not exist raises nothing and adds no entry.                    *)
C21_Original ==
    /\ NoDuplicates(loaded)
    /\ NoBlanks(loaded)
    /\ (JustConstructed /\ pm_ret.proxy_file.given /\ ~pm_ret.proxy_file.exists)
          => (pm_ret.res = Return(None) /\ loaded = FromList(pm_ret.proxy_list))

\* what holds of C21: the entries taken from the file are stripped, not
\* blank, and not in the pool already; a file that does not exist raises
\* nothing and adds no entry
C21_FileEntriesDeduplicated ==
    JustConstructed =>
        LET n == Len(FromList(pm_ret.proxy_list))
        IN  /\ pm_ret.res = Return(None)
            /\ SubSeq(loaded, 1, n) = FromList(pm_ret.proxy_list)
            /\ \A i \in (n + 1)..Len(loaded) :
                  /\ loaded[i] # <<>>
                  /\ Strip(loaded[i]) = loaded[i]
                  /\ \A j \in 1..(i - 1) : loaded[j] # loaded[i]
            /\ (~pm_ret.proxy_file.given \/ ~pm_ret.proxy_file.exists) => Len(loaded) = n

ValidReturned == \E i \in DOMAIN calls : calls[i].outcome = "valid"

(* C22: once a strategy call has returned VALID content, _get_page does     *)
(* nothing more: no strategy is called and no sleep started after it; and   *)
(* the strategies are called one at a time, each after the one before it    *)
(* has returned or raised.                                                  *)
C22_ValidEndsFetch ==
    [][/\ ~ValidReturned
       /\ ncalls' \in {ncalls, ncalls + 1}
       /\ ncalls' = ncalls + 1 =>
              /\ Len(calls') = Len(calls) + 1
              /\ SubSeq(calls', 1, Len(calls)) = calls
              /\ sleeps' = sleeps
       /\ sleeps' # sleeps => ncalls' = ncalls]_vars

\* the first strategy called returned <html>OK</html>: _get_page is over
\* with the other strategies not called and the retries not used
C22_Witness ==
    /\ pc = "done"
    /\ ret = Return(Str(OkPage))
    /\ ncalls = 1
    /\ Len(methods) = 4
    /\ max_retries = 2
    /\ sleeps = <<>>

(* C23: one UndetectedChromeDriver.get call sleeps wait_time once, after    *)
(* the navigation; it sleeps wait_time * 2 after that at most once, and     *)
(* only when its challenge checks found the page to be a challenge; then it *)
(* returns the page source as it is, a challenge or not, resolved or not:   *)
(* whatever it raises was raised by the driver or by an interrupt.          *)
C23_SettleThenAtMostOneLongerWait ==
    /\ Len(b_sleeps) <= 2
    /\ b_pc \in {"navigate", "settle"} => b_sleeps = <<>>
    /\ b_pc \in {"check", "wait_longer", "return"} => Len(b_sleeps) >= 1
    /\ b_sleeps # <<>> => b_sleeps[1] = wait_time
    /\ Len(b_sleeps) = 2 =>
          /\ b_sleeps[2] = 2 * wait_time
          /\ b_look.looked /\ b_look.verdict
          /\ IsCloudflareChallenge(b_look.page) \/ IsCaptchaChallenge(b_look.page)
    /\ b_ret.tag = "return" =>
          /\ b_ret.val = Str(page_source)
          /\ Len(b_sleeps) = IF b_look.verdict THEN 2 ELSE 1
    /\ b_ret.tag = "raise" => b_ret.exc \in {"WebDriverException", "KeyboardInterrupt"}

\* a CAPTCHA page was still there after both waits, and get returned it
C23_Witness ==
    /\ b_pc = "done"
    /\ b_sleeps = <<DefaultWaitTime, 2 * DefaultWaitTime>>
    /\ b_look.page = CaptchaPage
    /\ b_ret = Return(Str(CaptchaPage))

HttpMethods == {"_get_with_cloudscraper", "_get_with_tls_client", "_get_with_requests"}

(* C24: the strategies that are not configured are left out before the      *)
(* first attempt: with use_browser false _get_with_browser is called in no  *)
(* attempt and the driver is never started, and every attempt goes through  *)
(* the same strategies, each once in the list.                              *)
C24_UnconfiguredExcludedUpFront ==
    /\ ~use_browser =>
          /\ \A i \in DOMAIN calls : calls[i].method # "_get_with_browser"
          /\ driver = "None"
    /\ pc # "idle" =>
          /\ Elements(methods) =
                HttpMethods \cup (IF use_browser THEN {"_get_with_browser"} ELSE {})
          /\ NoDuplicates(methods)
    /\ \A i \in DOMAIN calls : calls[i].method = methods[i]

\* without a browser, the second attempt has called the three HTTP
\* strategies and all of them failed
C24_Witness ==
    /\ ~use_browser
    /\ attempt = 1
    /\ pc = "for_method"
    /\ pos = 3
    /\ Elements(CalledMethods) = HttpMethods

\* the entry get_proxy call number k of a full turn returns, when the turn
\* ended with the cursor at ci
TurnEntry(pool, ci, k) == pool[((ci + k - 1) % Len(pool)) + 1]

(* C25: get_proxy goes round the live entries: as many consecutive          *)
(* get_proxy calls as the pool has entries, with no removal since the first *)
(* of them, return every entry once, in pool order from the cursor on; and  *)
(* get_proxy returns None exactly when the pool is empty.                   *)
RoundRobin ==
    /\ (proxies # <<>> /\ Len(served) = Len(proxies)) =>
          \A k \in DOMAIN served :
              served[k] = Return(ProxyDict(TurnEntry(proxies, current_index, k)))
    /\ pm_ret.op = "get_proxy" => (pm_ret.res = Return(None) <=> proxies = <<>>)

\* C25, stated for the pools that were loaded without a duplicate and
\* without a blank entry
C25_Original == (NoDuplicates(loaded) /\ NoBlanks(loaded)) => RoundRobin

\* what holds of C25: get_proxy goes round the entries as long as no proxy
\* was ever removed
C25_BeforeAnyRemoval == proxies = loaded => RoundRobin

(* C26: when _get_page returned None, search_products returns [] and        *)
(* get_product_details returns {} and the _parse_* method is not called;    *)
(* the _parse_* method is called at most once, on content that _get_page    *)
(* returned and that _is_valid_page accepts.                                *)
C26_ExtractorOnlyOnValidContent ==
    /\ (api_pc = "done" /\ ret = Return(None)) =>
          /\ api_ret = Return(EmptyResult(api))
          /\ parsed = <<>>
    /\ Len(parsed) <= 1
    /\ \A i \in DOMAIN parsed :
          /\ ret = Return(parsed[i])
          /\ Classify(parsed[i]) = "VALID"
          /\ calls # <<>> /\ LastCall.outcome = "valid" /\ LastCall.html = parsed[i]
          /\ api_ret = Return(Extracted(api, parsed[i]))

\* every strategy failed in the one attempt there was, and search_products
\* returned [] without parsing anything
C26_Witness ==
    /\ api = "search_products"
    /\ api_pc = "done"
    /\ max_retries = 1
    /\ ncalls >= 3
    /\ sleeps = <<0>>
    /\ api_ret = Return(EmptyResult("search_products"))
    /\ parsed = <<>>

(* C29: with max_retries <= 0, _get_page calls no strategy and does not     *)
(* sleep, and returns None; search_products then returns [] and             *)
(* get_product_details {} with nothing parsed, no request sent, no browser  *)
(* started and no proxy drawn.                                              *)
C29_NoAttemptsNoAccess ==
    max_retries <= 0 =>
        /\ ncalls = 0 /\ calls = <<>>
        /\ sleeps = <<>>
        /\ pc = "done" => ret = Return(None)
        /\ api_pc = "done" => (api_ret = Return(EmptyResult(api)) /\ parsed = <<>>)
        /\ driver = "None"
        /\ sessions = InitScrapers
        /\ observed = <<>> /\ identity = NoIdentity
        /\ cookie_jar = EmptyJar
        /\ pm_ret.op = "get_proxy" => (use_browser /\ current_index <= 1)

\* get_product_details of a scraper built with a browser and max_retries = -1
\* has returned {}
C29_Witness ==
    /\ max_retries = 0 - 1
    /\ use_browser
    /\ api = "get_product_details"
    /\ api_pc = "done"
    /\ api_ret = Return(EmptyResult("get_product_details"))

(* C28: when every strategy fails in every attempt, _get_page with          *)
(* max_retries = N (N >= 0) sleeps after the last attempt too: it returns   *)
(* None after N completed sleeps, of retry_delay * 1, ..., retry_delay * N. *)
C28_Original ==
    (NoStrategySucceeded /\ max_retries >= 0) =>
        /\ ret = Return(None)
        /\ sleeps = [k \in 1..max_retries |-> retry_delay * k]

\* what holds of C28 when the configured delay is not negative
C28_WithNonNegativeDelay == retry_delay >= 0 => C28_Original

RECURSIVE Pow(_, _)
Pow(b, n) == IF n = 0 THEN 1 ELSE b * Pow(b, n - 1)

(* C27: with max_attempts >= 1, the wrapper of retry(max_attempts, delay,   *)
(* backoff) invokes func at most max_attempts times; the first invocation   *)
(* to return ends the wrapper with that value; the sleep before retry       *)
(* number i is delay * backoff^(i-1); what attempt number max_attempts      *)
(* raises comes out of the wrapper, with no sleep after it.                 *)
C27_RetryContract ==
    max_attempts >= 1 =>
        /\ Len(r_calls) <= max_attempts
        /\ \A i \in DOMAIN r_calls :
              r_calls[i] = "return" =>
                  (i = Len(r_calls) /\ r_pc = "done" /\ r_ret = FuncResult("return"))
        /\ \A i \in DOMAIN r_sleeps : r_sleeps[i] = delay * Pow(backoff, i - 1)
        /\ Len(r_sleeps) <= Len(r_calls)
        /\ Len(r_calls) <= Len(r_sleeps) + 1
        /\ (Len(r_calls) = max_attempts /\ r_calls[max_attempts] # "return") =>
              /\ r_pc = "done"
              /\ r_ret = Raise(r_calls[max_attempts])
              /\ Len(r_sleeps) = max_attempts - 1

\* retry(3, 1, 2): three invocations raised, with sleeps of 1 and 2 between
\* them, and the third exception came out
C27_Witness ==
    /\ max_attempts = 3 /\ delay = 1 /\ backoff = 2
    /\ r_calls = <<"Exception", "Exception", "Exception">>
    /\ r_sleeps = <<1, 2>>
    /\ r_pc = "done"
    /\ r_ret = Raise("Exception")

OtherClient(client) == IF client = "scraper" THEN "tls_client" ELSE "scraper"

HeldBefore(i) == {b_log[j].after : j \in 1..(i - 1)} \ {0}

(* C31: no driver exists before the first get; a get called while there is  *)
(* a driver keeps that driver and does not call initialize, whatever the    *)
(* get before it did, a failed navigation included; a get called while      *)
(* there is none calls initialize, and if uc.Chrome returns, the driver is  *)
(* one that was never held before; close leaves self.driver None whatever   *)
(* quit() did, and calls quit() only if there was a driver; between calls   *)
(* self.driver does not change.  So between two closes at most one driver   *)
(* is created.                                                              *)
C31_OneDriverUntilClose ==
    /\ (driver = "None") <=> (CurrentDriver = 0)
    /\ b_gets = 0 => (driver = "None" /\ DriversMade = 0)
    /\ \A i \in 1..Len(b_log) :
          LET e == b_log[i]
          IN  /\ e.before = IF i = 1 THEN 0 ELSE b_log[i - 1].after
              /\ (e.op = "get" /\ e.before # 0) =>
                    (e.after = e.before /\ e.init = "not_called")
              /\ (e.op = "get" /\ e.before = 0) =>
                    /\ e.init \in {"ok", "setup_raised", "chrome_raised"}
                    /\ chrome_ok => (e.after # 0 /\ e.after \notin HeldBefore(i))
                    /\ ~chrome_ok => e.after = 0
              /\ e.op = "close" =>
                    /\ e.after = 0
                    /\ (e.quit = "not_called") <=> (e.before = 0)
    /\ \A i \in 1..Len(b_log), j \in 1..Len(b_log) :
          (/\ i < j
           /\ b_log[i].init \in {"ok", "setup_raised"}
           /\ b_log[j].init \in {"ok", "setup_raised"}) =>
             \E k \in (i + 1)..(j - 1) : b_log[k].op = "close"

\* the first get started driver 1 and its navigation failed, the second get
\* used driver 1, close released it though quit() failed, a second close did
\* nothing, and the third get started driver 2
C31_Witness ==
    /\ b_gets = 3
    /\ Len(b_log) = 5
    /\ [i \in 1..5 |-> b_log[i].op] = <<"get", "get", "close", "close", "get">>
    /\ [i \in 1..5 |-> b_log[i].before] = <<0, 1, 1, 0, 0>>
    /\ [i \in 1..5 |-> b_log[i].after] = <<1, 1, 0, 0, 2>>
    /\ b_log[1].nav = "raised"
    /\ b_log[2].nav = "ok"
    /\ b_log[3].quit = "error"
    /\ b_log[4].quit = "not_called"
    /\ b_log[5].init = "ok"
    /\ driver = "chrome"

====
